---- MODULE Spec2Model ----
(***************************************************************************)
(* Prefix index (package trie) of alexnthnz/search-autocomplete.           *)
(*                                                                         *)
(* A string is a sequence of Unicode code points; its UTF-8 encoding is    *)
(* computed by Utf8.  The tree hanging off Trie.root is a function from    *)
(* paths (sequences of map keys, <<>> being the root) to node records.     *)
(***************************************************************************)
EXTENDS Integers, Sequences, FiniteSets, TLC

\* ------------------------------------------------------------------ bounds
\* number of mutating calls (Insert, Delete, UpdateFrequency) in a behaviour
MaxOps == 3
\* an inserted suggestion has a Score in 1..MaxScore
MaxScore == 2
\* UpdateFrequency is handed a frequency in 0..MaxFreq
MaxFreq == 1
\* Search is handed a limit in 1..MaxLimit
MaxLimit == 2
\* goroutines calling into the index concurrently
NumProcs == 2
\* number of mutating calls in a behaviour of concurrent goroutines
MaxConcOps == 2
\* the cache's ttl, in ticks of the clock
TTL == 1
\* the clock stops here
MaxTime == 3
\* calls made on the cache by the goroutines that use it directly
MaxCacheCalls == 3
\* calls of AddSuggestion, UpdateFrequency and DeleteSuggestion on the service
MaxSvcOps == 1
\* calls of GetSuggestions
MaxReqs == 2

\* GetSuggestions calls of a run that follows one query over time
StaleReqs == 4

\* GetSuggestions calls of a run on the data of the integration test
ScenarioReqs == 2

\* GetSuggestions calls of a run on an index with more candidates than the
\* largest limit
LimitReqs == 2

\* DeleteSuggestion calls of a run on the data of the integration test
ScenarioOps == 2

\* the goroutines that call Stop
NumStoppers == 2
\* LogQuery calls of a run of the pipeline
MaxEvents == 2
\* the pipeline's Config.QueueSize and Config.BatchSize in such a run
PipeQueue == 1
PipeBatch == 2
\* LogQuery calls of a run in which one query is logged again and again
TrendEvents == 200
\* calls of the admin handlers in a run
MaxAdmin == 2
\* LogQuery calls of a run in which the pipeline is not stopped
BatchEvents == 3
\* GetSuggestions calls of a run with deadlines
CtxReqs == 2

\* ------------------------------------------------------------------ inputs
\* Each behaviour works on one family of terms:
\*   "a", "A", "Ab"          equal after case folding; one a prefix of another
\*   "ab", "ac", " a"        siblings below "a"; surrounding white space
\*   U+05E9, U+00D7 U+00A9   one code point whose UTF-8 bytes are D7 A9, and the
\*                           two code points whose values are those bytes
TermFamilies ==
    { { <<97>>, <<65>>, <<65, 98>> },
      { <<97, 98>>, <<97, 99>>, <<32, 97>> },
      { <<1513>>, <<215, 169>> } }

Scores == 1..MaxScore
Freqs == 0..MaxFreq
Limits == 1..MaxLimit

\* ------------------------------------------------------------ string library
\* unicode.ToLower on the code points of Basic Latin and Latin-1; every other
\* code point used here (U+05E9) has no case.
ToLowerRune(c) ==
    IF c \in 65..90 THEN c + 32
    ELSE IF c \in 192..222 /\ c # 215 THEN c + 32
    ELSE c

\* unicode.ToUpper, same range (U+00B5, U+00DF and U+00FF map outside Latin-1
\* or to themselves and are not used here)
ToUpperRune(c) ==
    IF c \in 97..122 THEN c - 32
    ELSE IF c \in 224..254 /\ c # 247 THEN c - 32
    ELSE c

\* strings.ToLower / strings.ToUpper
ToLower(s) == [i \in DOMAIN s |-> ToLowerRune(s[i])]
ToUpper(s) == [i \in DOMAIN s |-> ToUpperRune(s[i])]

\* unicode.IsSpace
IsSpace(c) ==
    c \in (9..13) \cup {32, 133, 160, 5760, 8232, 8233, 8239, 8287, 12288}
          \cup (8192..8202)

\* strings.TrimSpace
RECURSIVE TrimLeft(_)
TrimLeft(s) ==
    IF s # <<>> /\ IsSpace(Head(s)) THEN TrimLeft(Tail(s)) ELSE s

RECURSIVE TrimRight(_)
TrimRight(s) ==
    IF s # <<>> /\ IsSpace(s[Len(s)]) THEN TrimRight(SubSeq(s, 1, Len(s) - 1))
    ELSE s

TrimSpace(s) == TrimRight(TrimLeft(s))

\* strings.ToLower(strings.TrimSpace(x)), the key under which a term is filed
Normalize(s) == ToLower(TrimSpace(s))

\* UTF-8 encoding of one code point, and of a string: what len(term) and
\* term[index] see in Go
Utf8Rune(c) ==
    IF c < 128 THEN <<c>>
    ELSE IF c < 2048 THEN <<192 + (c \div 64), 128 + (c % 64)>>
    ELSE IF c < 65536
         THEN <<224 + (c \div 4096), 128 + ((c \div 64) % 64), 128 + (c % 64)>>
    ELSE <<240 + (c \div 262144), 128 + ((c \div 4096) % 64),
           128 + ((c \div 64) % 64), 128 + (c % 64)>>

RECURSIVE Utf8(_)
Utf8(s) == IF s = <<>> THEN <<>> ELSE Utf8Rune(Head(s)) \o Utf8(Tail(s))

\* some code point of the string takes more than one byte in UTF-8
IsMultiByte(s) == \E i \in DOMAIN s : s[i] >= 128

\* the non-empty prefixes of a string
Prefixes(s) == { SubSeq(s, 1, n) : n \in 1..Len(s) }

IsPrefix(p, s) == Len(p) <= Len(s) /\ SubSeq(s, 1, Len(p)) = p

\* models.Suggestion, restricted to the fields the index reads or writes; an
\* inserted suggestion has Score = float64(Frequency), as
\* AutocompleteService.AddSuggestion defaults it
SuggestionsOver(family) ==
    { [Term |-> t, Frequency |-> sc, Score |-> sc] : t \in family, sc \in Scores }

\* the prefixes Search is called with: every non-empty prefix of a term of the
\* family, as written, in upper case and in lower case
PrefixesOver(family) ==
    UNION { { p, ToUpper(p), ToLower(p) } :
            p \in UNION { Prefixes(t) : t \in family } }

RemoveAt(s, i) == SubSeq(s, 1, i - 1) \o SubSeq(s, i + 1, Len(s))

\* ------------------------------------------------------------------- state
VARIABLES
    terms,     \* the family of terms this behaviour draws its inputs from
    root,      \* Trie.root: path |-> models.TrieNode, for the nodes reachable
    size,      \* Trie.size
    ops,       \* number of mutating calls made so far
    last,      \* the most recent call, its arguments and what it returned
    inserted,  \* history: terms handed to Insert and not to a later Delete
    mutex,     \* Trie.mutex: the goroutine holding it for writing, those reading
    proc,      \* per goroutine: the call it is in and how far it has got
    committed, \* history: root and size as the last completed mutation left them
    config,    \* service.Config as handed to NewAutocompleteService
    variant,   \* which cache.Cache the service was built with
    now,       \* the clock, in ticks
    data,      \* the cache's entries: key |-> cacheItem
    heap,      \* the backing arrays of the []models.Suggestion values alive
    tasks,     \* the goroutines started with "go" that have not run yet
    resp,      \* the most recent service call and what it returned
    calls,     \* number of service and cache calls made so far
    cproc,     \* per goroutine: the cache operation it is in
    mutated,   \* history: the most recent call that changes the index
    pipeConfig,  \* pipeline.Config after NewDataPipeline's defaults
    logQueue,    \* DataPipeline.logQueue: the events sent and not yet received
    freqUpdates, \* DataPipeline.freqUpdates: query |-> pending count
    freqMutex,   \* DataPipeline.freqMutex: the worker holding it, or "free"
    stopChan,    \* DataPipeline.stopChan: "open" or "closed"
    wg,          \* DataPipeline.wg: the counter of the WaitGroup
    worker,      \* per worker goroutine: where it is and its local variables
    stopper,     \* per caller of Stop: how far the call has got
    errorsTotal, \* metrics.ErrorsTotal for ("pipeline", "queue_full")
    logged,      \* history: the most recent LogQuery and what it returned
    accepted,    \* history: normalised query |-> events LogQuery enqueued
    merged,      \* history: normalised query |-> events added to freqUpdates
    handed,      \* history: query |-> sum of the counts a flush took over
    atStop,      \* history: when Stop was first called, had Start been
                 \* called, and what accepted was
    reply,       \* the most recent call of an admin handler and its answer
    batches      \* history: the logs of each processBatch call that had some

\* the goroutine state, untouched when calls are taken one at a time
concVars == <<mutex, proc, committed>>

\* the index and its callers
trieVars == <<terms, root, size, ops, last, inserted, mutex, proc, committed>>

\* the cache and the service around the index
svcVars == <<variant, now, data, heap, tasks, resp, calls, cproc, mutated>>

\* the configuration, the ingestion pipeline and the admin handlers
pipeVars == <<config, pipeConfig, logQueue, freqUpdates, freqMutex, stopChan,
              wg, worker, stopper, errorsTotal, logged, accepted, merged,
              handed, atStop, reply, batches>>

vars == <<terms, root, size, ops, last, inserted, mutex, proc, committed,
          variant, now, data, heap, tasks, resp, calls, cproc, mutated,
          config, pipeConfig, logQueue, freqUpdates, freqMutex, stopChan,
          wg, worker, stopper, errorsTotal, logged, accepted, merged,
          handed, atStop, reply, batches>>

Procs == 1..NumProcs

\* models.TrieNode as created by Insert (Children is the set of paths one
\* code point longer that are in DOMAIN root)
NewNode == [IsEndOfWord |-> FALSE, Suggestions |-> <<>>, Frequency |-> 0]

\* the keys of node.Children
Children(tree, path) ==
    { q[Len(q)] : q \in { r \in DOMAIN tree : Len(r) = Len(path) + 1
                                               /\ IsPrefix(path, r) } }

\* A call record: op; term, the term or prefix argument as passed; arg,
\* Search's limit, UpdateFrequency's frequency or Insert's score; stored, was
\* the normalised term a terminal node holding a candidate when the call
\* began; fresh, was the call before this one an Insert of this very term;
\* result, Search's return value; ret, Delete's return value; count,
\* GetSuggestionsCount's return value.
Call(op, term, arg, stored, fresh, result, ret, count) ==
    [op |-> op, term |-> term, arg |-> arg, stored |-> stored, fresh |-> fresh,
     result |-> result, ret |-> ret, count |-> count]

NoCall == Call("none", <<>>, 0, FALSE, FALSE, <<>>, FALSE, 0)

\* node at path exists, is terminal and holds at least one candidate
IsStored(tree, path) ==
    /\ path \in DOMAIN tree
    /\ tree[path].IsEndOfWord
    /\ tree[path].Suggestions # <<>>

\* a goroutine outside every call
Idle ==
    [pc |-> "idle", op |-> "none", term |-> <<>>, arg |-> 0, plan |-> <<>>,
     todo |-> <<>>, node |-> <<>>, stack |-> <<>>, acc |-> <<>>, result |-> <<>>]

\* the goroutines that use the cache: the callers and, as 0, the cleanup
\* goroutine NewInMemoryCache starts
CacheProcs == 0..NumProcs

\* a map without keys
EmptyMap == [k \in {} |-> 0]

\* a []models.Suggestion value: the backing array it points into and its
\* length; the nil slice
Slice(ref, n) == [ref |-> ref, n |-> n]

NoSlice == Slice(0, 0)

\* what "item, exists := c.data[query]" yields for a missing key
NoItem == [exists |-> FALSE, suggestions |-> NoSlice, expiry |-> 0]

\* a goroutine outside every cache operation; hit and result keep what its
\* last Get returned
CacheIdle ==
    [pc |-> "idle", op |-> "none", key |-> <<>>, payload |-> NoSlice,
     item |-> NoItem, todo |-> {}, at |-> 0, hit |-> FALSE, result |-> NoSlice]

\* models.AutocompleteResponse and the error returned with it, with the
\* request it answers, the state of the caller's context and the time it was
\* produced
NoResp ==
    [op |-> "none", query |-> <<>>, limit |-> 0, personal |-> FALSE,
     suggestions |-> <<>>, source |-> "none", at |-> 0, ctx |-> "live",
     err |-> "nil"]

\* what an admin handler writes with c.JSON: the handler, the term or terms
\* of the request, the HTTP status; n counts the calls
NoReply == [handler |-> "none", terms |-> <<>>, status |-> 0, n |-> 0]

\* a call of AddSuggestion, UpdateFrequency or DeleteSuggestion: its term, the
\* frequency it carried, when it was made, whether it changed the index, and
\* the invalidation goroutines it started
NoMutation ==
    [op |-> "none", term |-> <<>>, frequency |-> 0, at |-> 0,
     changed |-> FALSE, started |-> {}, ret |-> FALSE]

\* NewInMemoryCache / NewRedisCache and NewAutocompleteService: nothing
\* cached, nothing started, nothing asked
NewCache ==
    /\ now = 0
    /\ data = EmptyMap
    /\ heap = EmptyMap
    /\ tasks = {}
    /\ resp = NoResp
    /\ calls = 0
    /\ cproc = [p \in CacheProcs |-> CacheIdle]
    /\ mutated = NoMutation
    /\ reply = NoReply

\* the configuration cmd/server reads from an environment without settings
DefaultConfig == [EnableFuzzy |-> TRUE]

\* the three goroutines Start launches
Workers == { "processLogs", "updateFrequencies", "detectTrending" }

\* the goroutines that may call Stop
Stoppers == 1..NumStoppers

\* A worker: pc, where it is; final, is it on its way out after stopChan;
\* logs, processLogs' buffer;
\* queryFreq, processBatch's map and what extractNewSuggestions has still
\* to range over; updates, flushFrequencyUpdates' copy and what is still to
\* be applied; recentQueries, detectTrending's map query |-> timestamps;
\* seen, history: accepted as it was when analyzeTrends last ran.
NotStarted ==
    [pc |-> "none", final |-> FALSE, logs |-> <<>>,
     queryFreq |-> EmptyMap, updates |-> EmptyMap, recentQueries |-> EmptyMap,
     seen |-> EmptyMap]

NoStop == [started |-> FALSE, accepted |-> EmptyMap]

NoLog == [query |-> <<>>, ret |-> "none", before |-> 0, after |-> 0,
          errors |-> 0, calls |-> 0]

\* pipeline.Config with the values NewDataPipeline puts in for those not set
PipelineDefaults == [BatchSize |-> 100, QueueSize |-> 10000]

\* NewDataPipeline(service, config, logger, metrics)
NewDataPipeline(conf) ==
    /\ pipeConfig = conf
    /\ logQueue = <<>>
    /\ freqUpdates = EmptyMap
    /\ freqMutex = "free"
    /\ stopChan = "open"
    /\ wg = 0
    /\ worker = [w \in Workers |-> NotStarted]
    /\ stopper = [c \in Stoppers |-> "idle"]
    /\ errorsTotal = 0
    /\ batches = <<>>
    /\ logged = NoLog
    /\ accepted = EmptyMap
    /\ merged = EmptyMap
    /\ handed = EmptyMap
    /\ atStop = NoStop

\* trie.New
Init ==
    /\ config = DefaultConfig
    /\ NewDataPipeline(PipelineDefaults)
    /\ variant = "memory"
    /\ NewCache
    /\ terms \in TermFamilies
    /\ root = (<<>> :> NewNode)
    /\ size = 0
    /\ ops = 0
    /\ last = NoCall
    /\ inserted = {}
    /\ mutex = [writer |-> 0, readers |-> {}]
    /\ proc = [p \in Procs |-> Idle]
    /\ committed = [root |-> (<<>> :> NewNode), size |-> 0]

\* ------------------------------------------------------------- sort.Slice
\* sort.Slice(x, func(i, j) bool { return x[i].Score > x[j].Score }).  Up to
\* 12 elements sort.Slice runs an insertion sort: element i moves left while
\* its Score is strictly greater than its left neighbour's, so equal scores
\* keep their order.
InsertionStep(sorted, e) ==
    LET ahead == { i \in DOMAIN sorted : ~(e.Score > sorted[i].Score) }
        k == IF ahead = {} THEN 0
             ELSE CHOOSE i \in ahead : \A j \in ahead : j <= i
    IN  SubSeq(sorted, 1, k) \o <<e>> \o SubSeq(sorted, k + 1, Len(sorted))

RECURSIVE InsertionSort(_)
InsertionSort(x) ==
    IF Len(x) <= 1 THEN x
    ELSE InsertionStep(InsertionSort(SubSeq(x, 1, Len(x) - 1)), x[Len(x)])

\* the length up to which sort.Slice sorts by insertion
InsertionSortLen == 12

\* Longer lists go through the quicksort of package sort, which is not stable.
\* The longer lists reached here have pairwise distinct scores, and then the
\* result is the one descending arrangement: the element with k - 1 greater
\* scores comes k-th.
SortSlice(x) ==
    IF Len(x) <= InsertionSortLen THEN InsertionSort(x)
    ELSE [ k \in DOMAIN x |->
             x[CHOOSE i \in DOMAIN x :
                 Cardinality({ j \in DOMAIN x : x[j].Score > x[i].Score }) = k - 1] ]

\* ------------------------------------------------------------ Trie.Insert
\* the loop over the code points of term: create missing nodes, node.Frequency++
InsertPath(tree, term) ==
    [ p \in DOMAIN tree \cup Prefixes(term) |->
        LET n == IF p \in DOMAIN tree THEN tree[p] ELSE NewNode
        IN  IF p \in Prefixes(term)
            THEN [n EXCEPT !.Frequency = @ + 1]
            ELSE n ]

\* the same without the append of a suggestion that was not found
InsertCandidateNoAppend(list, suggestion) ==
    LET same == { i \in DOMAIN list : list[i].Term = suggestion.Term }
    IN  IF same # {}
        THEN [list EXCEPT ![CHOOSE i \in same : \A j \in same : i <= j]
                              = suggestion]
        ELSE list

\* "Add or update suggestion in the node": the first entry whose Term equals
\* suggestion.Term byte for byte is overwritten, otherwise append
InsertCandidate(list, suggestion) ==
    LET same == { i \in DOMAIN list : list[i].Term = suggestion.Term }
    IN  IF same # {}
        THEN [list EXCEPT ![CHOOSE i \in same : \A j \in same : i <= j]
                              = suggestion]
        ELSE Append(list, suggestion)

\* the tree and size Insert leaves behind
InsertOutcome(tree, sz, suggestion) ==
    LET term == Normalize(suggestion.Term)
    IN  IF term = <<>> THEN [root |-> tree, size |-> sz]
        ELSE
        LET walked == InsertPath(tree, term)
            node == walked[term]
            isNewSuggestion == ~node.IsEndOfWord
            found == \E i \in DOMAIN node.Suggestions :
                        node.Suggestions[i].Term = suggestion.Term
            list == InsertCandidate(node.Suggestions, suggestion)
            newSize == IF ~found /\ isNewSuggestion THEN sz + 1 ELSE sz
        IN  [root |-> [walked EXCEPT ![term] =
                          [@ EXCEPT !.IsEndOfWord = TRUE,
                                    !.Suggestions = SortSlice(list)]],
             size |-> newSize]

Insert(suggestion) ==
    /\ ops < MaxOps
    /\ LET out == InsertOutcome(root, size, suggestion)
       IN  /\ root' = out.root
           /\ size' = out.size
    /\ ops' = ops + 1
    /\ last' = Call("Insert", suggestion.Term, suggestion.Score,
                    IsStored(root, Normalize(suggestion.Term)), FALSE, <<>>,
                    FALSE, 0)
    /\ inserted' = IF Normalize(suggestion.Term) = <<>> THEN inserted
                   ELSE inserted \cup {suggestion.Term}
    /\ UNCHANGED <<terms, concVars>>
    /\ UNCHANGED svcVars
    /\ UNCHANGED pipeVars

\* ------------------------------------------------------------ Trie.Search
\* collectSuggestions: the node's own list when terminal, then the children
\* in the order the map iteration yields them, which Go leaves unspecified
RECURSIVE collectSuggestions(_, _), collectChildren(_, _, _)
collectSuggestions(tree, path) ==
    LET own == IF tree[path].IsEndOfWord THEN tree[path].Suggestions ELSE <<>>
    IN  { own \o rest : rest \in collectChildren(tree, path, Children(tree, path)) }

collectChildren(tree, path, remaining) ==
    IF remaining = {} THEN { <<>> }
    ELSE UNION { { a \o b : a \in collectSuggestions(tree, Append(path, c)),
                            b \in collectChildren(tree, path, remaining \ {c}) } :
                 c \in remaining }

\* suggestions[:limit] when len(suggestions) > limit
Truncate(list, limit) ==
    IF Len(list) > limit THEN SubSeq(list, 1, limit) ELSE list

\* Search with the truncation applied before the sort
SearchOutcomesTruncateFirst(tree, prefix, limit) ==
    LET p == Normalize(prefix)
    IN  IF p = <<>> \/ p \notin DOMAIN tree THEN { <<>> }
        ELSE { SortSlice(Truncate(collected, limit)) :
               collected \in collectSuggestions(tree, p) }

\* the values Search(prefix, limit) can return
SearchOutcomes(tree, prefix, limit) ==
    LET p == Normalize(prefix)
    IN  IF p = <<>> \/ p \notin DOMAIN tree THEN { <<>> }
        ELSE { Truncate(SortSlice(collected), limit) :
               collected \in collectSuggestions(tree, p) }

Search(prefix, limit) ==
    /\ \E result \in SearchOutcomes(root, prefix, limit) :
          last' = Call("Search", prefix, limit, IsStored(root, Normalize(prefix)),
                       FALSE, result, FALSE, 0)
    /\ UNCHANGED <<terms, root, size, ops, inserted, concVars>>
    /\ UNCHANGED svcVars
    /\ UNCHANGED pipeVars

\* ----------------------------------------------- Trie.GetSuggestionsCount
\* countSuggestions: the sum of len(node.Suggestions) over the terminal nodes
RECURSIVE countSuggestions(_, _)
countSuggestions(tree, paths) ==
    IF paths = {} THEN 0
    ELSE LET p == CHOOSE q \in paths : TRUE
         IN  (IF tree[p].IsEndOfWord THEN Len(tree[p].Suggestions) ELSE 0)
             + countSuggestions(tree, paths \ {p})

GetSuggestionsCount ==
    /\ last' = Call("GetSuggestionsCount", <<>>, 0, FALSE, FALSE, <<>>, FALSE,
                    countSuggestions(root, DOMAIN root))
    /\ UNCHANGED <<terms, root, size, ops, inserted, concVars>>
    /\ UNCHANGED svcVars
    /\ UNCHANGED pipeVars

\* ------------------------------------------------------------ Trie.Delete
\* delete(node.Children, char): the child and everything below it goes
RemoveChild(tree, child) ==
    [ p \in { q \in DOMAIN tree : ~IsPrefix(child, q) } |-> tree[p] ]

\* deleteHelper(node, term, index): term is indexed by byte, index runs to
\* len(term) in bytes, and each byte converted to a rune is the map key.
\* Returns the tree and the function's boolean.
RECURSIVE deleteHelper(_, _, _, _)
deleteHelper(tree, path, bytes, index) ==
    IF index = Len(bytes)
    THEN IF ~tree[path].IsEndOfWord
         THEN [root |-> tree, ret |-> FALSE]
         ELSE [root |-> [tree EXCEPT ![path] =
                            [@ EXCEPT !.IsEndOfWord = FALSE,
                                      !.Suggestions = <<>>]],
               ret |-> Children(tree, path) = {}]
    ELSE LET char == bytes[index + 1]
             child == Append(path, char)
         IN  IF child \notin DOMAIN tree
             THEN [root |-> tree, ret |-> FALSE]
             ELSE LET sub == deleteHelper(tree, child, bytes, index + 1)
                  IN  IF sub.ret
                      THEN LET cut == RemoveChild(sub.root, child)
                           IN  [root |-> cut,
                                ret |-> Children(cut, path) = {}
                                        /\ ~cut[path].IsEndOfWord]
                      ELSE [root |-> sub.root, ret |-> FALSE]

\* the tree, size and return value of Delete(term)
DeleteOutcome(tree, sz, term) ==
    LET t == Normalize(term)
    IN  IF t = <<>> THEN [root |-> tree, size |-> sz, ret |-> FALSE]
        ELSE LET r == deleteHelper(tree, <<>>, Utf8(t), 0)
             IN  [root |-> r.root,
                  size |-> IF r.ret THEN sz - 1 ELSE sz,
                  ret |-> r.ret]

Delete(term) ==
    /\ ops < MaxOps
    /\ LET out == DeleteOutcome(root, size, term)
       IN  /\ root' = out.root
           /\ size' = out.size
           /\ last' = Call("Delete", term, 0, IsStored(root, Normalize(term)),
                           FALSE, <<>>, out.ret, 0)
    /\ ops' = ops + 1
    /\ inserted' = { u \in inserted : Normalize(u) # Normalize(term) }
    /\ UNCHANGED <<terms, concVars>>
    /\ UNCHANGED svcVars
    /\ UNCHANGED pipeVars

\* --------------------------------------------------- Trie.UpdateFrequency
\* the first entry whose lower-cased Term equals the normalised term gets
\* Frequency = frequency and Score = float64(frequency) (exact below 2^53)
UpdateCandidate(list, term, frequency) ==
    LET hits == { i \in DOMAIN list : ToLower(list[i].Term) = term }
    IN  IF hits = {} THEN list
        ELSE [list EXCEPT ![CHOOSE i \in hits : \A j \in hits : i <= j] =
                 [@ EXCEPT !.Frequency = frequency, !.Score = frequency]]

\* the tree UpdateFrequency(term, frequency) leaves behind
UpdateOutcome(tree, term, frequency) ==
    LET t == Normalize(term)
    IN  IF t = <<>> \/ t \notin DOMAIN tree \/ ~tree[t].IsEndOfWord THEN tree
        ELSE [tree EXCEPT ![t] =
                [@ EXCEPT !.Suggestions =
                     SortSlice(UpdateCandidate(@, t, frequency))]]

UpdateFrequency(term, frequency) ==
    /\ ops < MaxOps
    /\ root' = UpdateOutcome(root, term, frequency)
    /\ ops' = ops + 1
    /\ last' = Call("UpdateFrequency", term, frequency,
                    IsStored(root, Normalize(term)),
                    last.op = "Insert" /\ last.term = term, <<>>, FALSE, 0)
    /\ UNCHANGED <<terms, size, inserted, concVars>>
    /\ UNCHANGED svcVars
    /\ UNCHANGED pipeVars

\* ------------------------------------------------------------ specification
Next ==
    \/ \E s \in SuggestionsOver(terms) : Insert(s)
    \/ \E p \in PrefixesOver(terms), k \in Limits : Search(p, k)
    \/ GetSuggestionsCount
    \/ \E t \in terms : Delete(t)
    \/ \E t \in terms, f \in Freqs : UpdateFrequency(t, f)

Spec == Init /\ [][Next]_vars

\* the behaviours whose terms are all single-byte
InitAscii == Init /\ \A t \in terms : ~IsMultiByte(t)

SpecAscii == InitAscii /\ [][Next]_vars

\* ------------------------------------------------- the calls, step by step
\* What a mutating call writes, one write at a time, while it holds
\* Trie.mutex: the sequence of (root, size) it passes through.
Step(tree, sz) == [root |-> tree, size |-> sz]

\* Insert's loop, iteration n onwards: node.Children[char] = &TrieNode{...}
\* when the child is missing, then node.Frequency++
RECURSIVE PathSteps(_, _, _, _)
PathSteps(tree, sz, term, n) ==
    IF n > Len(term) THEN <<>>
    ELSE LET p == SubSeq(term, 1, n)
             created == IF p \in DOMAIN tree THEN tree ELSE tree @@ (p :> NewNode)
             bumped == [created EXCEPT ![p].Frequency = @ + 1]
         IN  (IF p \in DOMAIN tree THEN <<>> ELSE <<Step(created, sz)>>)
             \o <<Step(bumped, sz)>>
             \o PathSteps(bumped, sz, term, n + 1)

\* Insert after the loop: IsEndOfWord = true; overwrite or append; t.size++;
\* sort.Slice
InsertSteps(tree, sz, suggestion) ==
    LET term == Normalize(suggestion.Term)
    IN  IF term = <<>> THEN <<>>
        ELSE
        LET walked == InsertPath(tree, term)
            flagged == [walked EXCEPT ![term].IsEndOfWord = TRUE]
            listed == [flagged EXCEPT ![term].Suggestions =
                           InsertCandidate(@, suggestion)]
            final == InsertOutcome(tree, sz, suggestion)
        IN  PathSteps(tree, sz, term, 1)
            \o <<Step(flagged, sz), Step(listed, sz)>>
            \o (IF final.size # sz THEN <<Step(listed, final.size)>> ELSE <<>>)
            \o <<Step(final.root, final.size)>>

\* deleteHelper unwinding from level n: delete(node.Children, char) for every
\* node of the path that the finished call has removed, deepest first
RECURSIVE PruneSteps(_, _, _, _, _)
PruneSteps(tree, sz, bytes, n, kept) ==
    IF n = 0 THEN <<>>
    ELSE LET child == SubSeq(bytes, 1, n)
         IN  IF child \in kept THEN <<>>
             ELSE LET cut == RemoveChild(tree, child)
                  IN  <<Step(cut, sz)>> \o PruneSteps(cut, sz, bytes, n - 1, kept)

\* Delete: IsEndOfWord = false; Suggestions = []; the unlinking; t.size--
DeleteSteps(tree, sz, term) ==
    LET bytes == Utf8(Normalize(term))
    IN  IF bytes = <<>> \/ bytes \notin DOMAIN tree \/ ~tree[bytes].IsEndOfWord
        THEN <<>>
        ELSE
        LET final == DeleteOutcome(tree, sz, term)
            unflagged == [tree EXCEPT ![bytes].IsEndOfWord = FALSE]
            emptied == [unflagged EXCEPT ![bytes].Suggestions = <<>>]
        IN  <<Step(unflagged, sz), Step(emptied, sz)>>
            \o PruneSteps(emptied, sz, bytes, Len(bytes), DOMAIN final.root)
            \o (IF final.ret THEN <<Step(final.root, final.size)>> ELSE <<>>)

\* UpdateFrequency: Frequency = frequency; Score = float64(frequency);
\* sort.Slice
UpdateSteps(tree, sz, term, frequency) ==
    LET t == Normalize(term)
    IN  IF t = <<>> \/ t \notin DOMAIN tree \/ ~tree[t].IsEndOfWord THEN <<>>
        ELSE
        LET list == tree[t].Suggestions
            hits == { i \in DOMAIN list : ToLower(list[i].Term) = t }
            first == CHOOSE i \in hits : \A j \in hits : i <= j
            freqSet == [tree EXCEPT ![t].Suggestions[first].Frequency = frequency]
            scoreSet == [freqSet EXCEPT ![t].Suggestions[first].Score = frequency]
        IN  (IF hits = {} THEN <<>>
             ELSE <<Step(freqSet, sz), Step(scoreSet, sz)>>)
            \o <<Step(UpdateOutcome(tree, term, frequency), sz)>>

\* the mutating calls a goroutine can make
WriteCalls(family) ==
    { [op |-> "Insert", term |-> s.Term, arg |-> s.Score] :
          s \in SuggestionsOver(family) }
    \cup { [op |-> "Delete", term |-> t, arg |-> 0] : t \in family }
    \cup { [op |-> "UpdateFrequency", term |-> t, arg |-> f] :
          t \in family, f \in Freqs }

SuggestionOf(c) == [Term |-> c.term, Frequency |-> c.arg, Score |-> c.arg]

WriteSteps(c, tree, sz) ==
    IF c.op = "Insert" THEN InsertSteps(tree, sz, SuggestionOf(c))
    ELSE IF c.op = "Delete" THEN DeleteSteps(tree, sz, c.term)
    ELSE UpdateSteps(tree, sz, c.term, c.arg)

\* what the same call leaves behind when taken in one piece
WriteOutcome(c, tree, sz) ==
    IF c.op = "Insert"
    THEN LET out == InsertOutcome(tree, sz, SuggestionOf(c))
         IN  Step(out.root, out.size)
    ELSE IF c.op = "Delete"
    THEN LET out == DeleteOutcome(tree, sz, c.term)
         IN  Step(out.root, out.size)
    ELSE Step(UpdateOutcome(tree, c.term, c.arg), sz)

\* t.mutex.Lock() returns: nobody holds the mutex
CanLock(p) == mutex.writer = 0 /\ mutex.readers = {}

\* RLock taken without regard to a writer
CanRLockAlways(p) == TRUE

\* t.mutex.RLock() returns: no writer holds the mutex (that sync.RWMutex also
\* holds new readers back while a Lock call is waiting only removes
\* interleavings)
CanRLock(p) == mutex.writer = 0

\* a goroutine calls Insert, Delete or UpdateFrequency and reaches Lock()
CallWrite(p) ==
    /\ proc[p].pc = "idle"
    /\ ops < MaxConcOps
    /\ proc' = [proc EXCEPT ![p].pc = "lock"]
    /\ ops' = ops + 1
    /\ UNCHANGED <<terms, root, size, last, inserted, mutex, committed>>
    /\ UNCHANGED svcVars
    /\ UNCHANGED pipeVars

\* Lock() returns to the call c that was waiting in it; the arguments of a
\* call are not looked at before that
Lock(p, c) ==
    /\ proc[p].pc = "lock"
    /\ CanLock(p)
    /\ mutex' = [mutex EXCEPT !.writer = p]
    /\ proc' = [proc EXCEPT ![p].pc = "writing",
                            ![p].op = c.op, ![p].term = c.term, ![p].arg = c.arg,
                            ![p].plan = WriteSteps(c, root, size)]
    /\ UNCHANGED <<terms, root, size, ops, last, inserted, committed>>
    /\ UNCHANGED svcVars
    /\ UNCHANGED pipeVars

\* the next write of the call holding the mutex
WriteStep(p) ==
    /\ proc[p].pc = "writing"
    /\ proc[p].plan # <<>>
    /\ root' = Head(proc[p].plan).root
    /\ size' = Head(proc[p].plan).size
    /\ proc' = [proc EXCEPT ![p].plan = Tail(@)]
    /\ UNCHANGED <<terms, ops, last, inserted, mutex, committed>>
    /\ UNCHANGED svcVars
    /\ UNCHANGED pipeVars

\* defer t.mutex.Unlock()
Unlock(p) ==
    /\ proc[p].pc = "writing"
    /\ proc[p].plan = <<>>
    /\ mutex' = [mutex EXCEPT !.writer = 0]
    /\ proc' = [proc EXCEPT ![p] = Idle]
    /\ committed' = Step(root, size)
    /\ UNCHANGED <<terms, root, size, ops, last, inserted>>
    /\ UNCHANGED svcVars
    /\ UNCHANGED pipeVars

\* a goroutine calls Search and reaches RLock()
CallSearch(p) ==
    /\ proc[p].pc = "idle"
    /\ proc' = [proc EXCEPT ![p].pc = "rlock"]
    /\ UNCHANGED <<terms, root, size, ops, last, inserted, mutex, committed>>
    /\ UNCHANGED svcVars
    /\ UNCHANGED pipeVars

\* RLock() returns to Search(prefix, limit), then
\* prefix = ToLower(TrimSpace(prefix)); an empty prefix returns at once
RLock(p, prefix, limit) ==
    /\ proc[p].pc = "rlock"
    /\ CanRLock(p)
    /\ mutex' = [mutex EXCEPT !.readers = @ \cup {p}]
    /\ proc' = [proc EXCEPT
                  ![p].pc = IF Normalize(prefix) = <<>> THEN "return" ELSE "walk",
                  ![p].op = "Search", ![p].term = prefix, ![p].arg = limit,
                  ![p].todo = Normalize(prefix)]
    /\ UNCHANGED <<terms, root, size, ops, last, inserted, committed>>
    /\ UNCHANGED svcVars
    /\ UNCHANGED pipeVars

\* one iteration of "Navigate to the prefix node"
WalkStep(p) ==
    /\ proc[p].pc = "walk"
    /\ LET me == proc[p]
           child == Append(me.node, Head(me.todo))
       IN  proc' = [proc EXCEPT ![p] =
                IF me.todo = <<>>
                THEN [me EXCEPT !.pc = "collect", !.stack = <<me.node>>]
                ELSE IF child \in DOMAIN root
                THEN [me EXCEPT !.node = child, !.todo = Tail(me.todo)]
                ELSE [me EXCEPT !.pc = "return", !.result = <<>>]]
    /\ UNCHANGED <<terms, root, size, ops, last, inserted, mutex, committed>>
    /\ UNCHANGED svcVars
    /\ UNCHANGED pipeVars

\* the orders in which a range over a map can yield the keys in S
RECURSIVE Orderings(_)
Orderings(S) ==
    IF S = {} THEN { <<>> }
    ELSE UNION { { <<c>> \o r : r \in Orderings(S \ {c}) } : c \in S }

\* one call of collectSuggestions: the node's list when it is terminal, its
\* children queued in map order; after the last one, the sort and the cut
CollectStep(p) ==
    /\ proc[p].pc = "collect"
    /\ LET me == proc[p]
       IN  IF me.stack = <<>>
           THEN proc' = [proc EXCEPT ![p] =
                    [me EXCEPT !.pc = "return",
                               !.result = Truncate(SortSlice(me.acc), me.arg)]]
           ELSE LET n == Head(me.stack)
                    here == n \in DOMAIN root
                    own == IF here /\ root[n].IsEndOfWord
                           THEN root[n].Suggestions ELSE <<>>
                    kids == IF here THEN Children(root, n) ELSE {}
                IN  \E order \in Orderings(kids) :
                       proc' = [proc EXCEPT ![p] =
                          [me EXCEPT !.acc = me.acc \o own,
                                     !.stack = [i \in DOMAIN order |->
                                                   Append(n, order[i])]
                                               \o Tail(me.stack)]]
    /\ UNCHANGED <<terms, root, size, ops, last, inserted, mutex, committed>>
    /\ UNCHANGED svcVars
    /\ UNCHANGED pipeVars

\* defer t.mutex.RUnlock(); return suggestions
RUnlock(p) ==
    /\ proc[p].pc = "return"
    /\ mutex' = [mutex EXCEPT !.readers = @ \ {p}]
    /\ proc' = [proc EXCEPT ![p] = Idle]
    /\ UNCHANGED <<terms, root, size, ops, last, inserted, committed>>
    /\ UNCHANGED svcVars
    /\ UNCHANGED pipeVars

NextConc ==
    \E p \in Procs :
        \/ CallWrite(p)
        \/ \E c \in WriteCalls(terms) : Lock(p, c)
        \/ WriteStep(p)
        \/ Unlock(p)
        \/ CallSearch(p)
        \/ \E q \in PrefixesOver(terms), k \in Limits : RLock(p, q, k)
        \/ WalkStep(p)
        \/ CollectStep(p)
        \/ RUnlock(p)

\* the goroutines work on the terms that are equal after case folding
InitConc == Init /\ terms = { <<97>>, <<65>>, <<65, 98>> }

SpecConc == InitConc /\ [][NextConc]_vars

\* ---------------------------------------------------------- the cache
\* the keys and payloads the direct users of the cache work with
CacheKeys == { <<97>>, <<97, 98>> }

CachePayloads == { Slice(1, 1), Slice(2, 1) }

\* delete(c.data, key)
MapDelete(m, key) == [k \in DOMAIN m \ {key} |-> m[k]]

\* c.data[key] = v
MapSet(m, key, v) == [k \in DOMAIN m \cup {key} |-> IF k = key THEN v ELSE m[k]]

\* item, exists := c.data[query]
MapGet(m, key) ==
    IF key \in DOMAIN m
    THEN [exists |-> TRUE, suggestions |-> m[key].suggestions,
          expiry |-> m[key].expiry]
    ELSE NoItem

\* cacheItem{suggestions: suggestions, expiry: time.Now().Add(c.ttl)}
CacheItem(payload, t) == [suggestions |-> payload, expiry |-> t + TTL]

\* the comparison turned round
ExpiredBefore(item, t) == t < item.expiry

\* time.Now().After(item.expiry)
Expired(item, t) == t > item.expiry

\* a goroutine calls Get, Set or Delete of the InMemoryCache; none of them
\* takes a lock
CacheCall(p, op, key, payload) ==
    /\ cproc[p].pc = "idle"
    /\ calls < MaxCacheCalls
    /\ calls' = calls + 1
    /\ cproc' = [cproc EXCEPT ![p] =
                    [CacheIdle EXCEPT !.pc = op, !.op = op, !.key = key,
                                      !.payload = payload]]
    /\ UNCHANGED <<variant, now, data, heap, tasks, resp, mutated>>
    /\ UNCHANGED pipeVars
    /\ UNCHANGED trieVars

\* Get: item, exists := c.data[query]
GetRead(p) ==
    /\ cproc[p].pc = "Get"
    /\ cproc' = [cproc EXCEPT ![p].pc = "check",
                              ![p].item = MapGet(data, cproc[p].key)]
    /\ UNCHANGED <<variant, now, data, heap, tasks, resp, calls, mutated>>
    /\ UNCHANGED pipeVars
    /\ UNCHANGED trieVars

\* Get: if !exists || time.Now().After(item.expiry) { delete; return nil,
\* false }; return item.suggestions, true
GetReturn(p) ==
    /\ cproc[p].pc = "check"
    /\ LET me == cproc[p]
           miss == ~me.item.exists \/ Expired(me.item, now)
       IN  /\ data' = IF miss /\ me.item.exists THEN MapDelete(data, me.key)
                      ELSE data
           /\ cproc' = [cproc EXCEPT ![p] =
                          [me EXCEPT !.pc = "idle", !.hit = ~miss,
                                     !.result = IF miss THEN NoSlice
                                                ELSE me.item.suggestions]]
    /\ UNCHANGED <<variant, now, heap, tasks, resp, calls, mutated>>
    /\ UNCHANGED pipeVars
    /\ UNCHANGED trieVars

\* Set: c.data[query] = cacheItem{...}
SetWrite(p) ==
    /\ cproc[p].pc = "Set"
    /\ data' = MapSet(data, cproc[p].key, CacheItem(cproc[p].payload, now))
    /\ cproc' = [cproc EXCEPT ![p].pc = "idle"]
    /\ UNCHANGED <<variant, now, heap, tasks, resp, calls, mutated>>
    /\ UNCHANGED pipeVars
    /\ UNCHANGED trieVars

\* Delete: delete(c.data, query)
DeleteWrite(p) ==
    /\ cproc[p].pc = "Delete"
    /\ data' = MapDelete(data, cproc[p].key)
    /\ cproc' = [cproc EXCEPT ![p].pc = "idle"]
    /\ UNCHANGED <<variant, now, heap, tasks, resp, calls, mutated>>
    /\ UNCHANGED pipeVars
    /\ UNCHANGED trieVars

\* cleanup: the ticker fires; now := time.Now(); the range over c.data begins
ReapStart ==
    /\ cproc[0].pc = "idle"
    /\ data # EmptyMap
    /\ cproc' = [cproc EXCEPT ![0].pc = "sweep", ![0].op = "cleanup",
                              ![0].at = now, ![0].todo = DOMAIN data]
    /\ UNCHANGED <<variant, now, data, heap, tasks, resp, calls, mutated>>
    /\ UNCHANGED pipeVars
    /\ UNCHANGED trieVars

\* cleanup: one iteration of the range: if now.After(item.expiry) { delete }
ReapStep(key) ==
    /\ cproc[0].pc = "sweep"
    /\ key \in cproc[0].todo
    /\ data' = IF key \in DOMAIN data /\ Expired(data[key], cproc[0].at)
               THEN MapDelete(data, key) ELSE data
    /\ cproc' = [cproc EXCEPT ![0].todo = @ \ {key}]
    /\ UNCHANGED <<variant, now, heap, tasks, resp, calls, mutated>>
    /\ UNCHANGED pipeVars
    /\ UNCHANGED trieVars

\* cleanup: the range is over; back to waiting for the ticker
ReapDone ==
    /\ cproc[0].pc = "sweep"
    /\ cproc[0].todo = {}
    /\ cproc' = [cproc EXCEPT ![0] = CacheIdle]
    /\ UNCHANGED <<variant, now, data, heap, tasks, resp, calls, mutated>>
    /\ UNCHANGED pipeVars
    /\ UNCHANGED trieVars

\* the clock advances
Tick ==
    /\ now < MaxTime
    /\ now' = now + 1
    /\ UNCHANGED <<variant, data, heap, tasks, resp, calls, cproc, mutated>>
    /\ UNCHANGED pipeVars
    /\ UNCHANGED trieVars

NextCache ==
    \/ \E p \in Procs, key \in CacheKeys :
          \/ CacheCall(p, "Get", key, NoSlice)
          \/ \E payload \in CachePayloads : CacheCall(p, "Set", key, payload)
          \/ CacheCall(p, "Delete", key, NoSlice)
    \/ \E p \in Procs :
          \/ GetRead(p)
          \/ GetReturn(p)
          \/ SetWrite(p)
          \/ DeleteWrite(p)
    \/ ReapStart
    \/ \E key \in CacheKeys : ReapStep(key)
    \/ ReapDone
    \/ Tick

\* the in-process cache on its own
InitCache == Init /\ terms = { <<97>>, <<65>>, <<65, 98>> }

SpecCache == InitCache /\ [][NextCache]_vars

\* ------------------------------------------------------------ the scores
\* Suggestion.Score is a float64.  The scores reached here are products of
\* small integers and of the ranker's factors 2, 10/(10+len), 11/10, 6/5 and
\* 4/5, kept as fractions in lowest terms.
RECURSIVE GCD(_, _)
GCD(a, b) == IF b = 0 THEN a ELSE GCD(b, a % b)

Rat(n, d) == LET g == GCD(n, d) IN [num |-> n \div g, den |-> d \div g]

\* r * n / d
RatMul(r, n, d) ==
    LET g1 == GCD(r.num, d)
        g2 == GCD(n, r.den)
    IN  IF r.num = 0 THEN Rat(0, 1)
        ELSE [num |-> (r.num \div g1) * (n \div g2),
              den |-> (r.den \div g2) * (d \div g1)]

\* a/b < c/d, by the integer parts and then the remainders
RECURSIVE FracLess(_, _, _, _)
FracLess(a, b, c, d) ==
    IF a \div b # c \div d THEN a \div b < c \div d
    ELSE IF c % d = 0 THEN FALSE
    ELSE IF a % b = 0 THEN TRUE
    ELSE FracLess(d, c % d, b, a % b)

\* x > y for two scores
ScoreGreater(x, y) == FracLess(y.num, y.den, x.num, x.den)

\* a candidate as Search hands it out: the Score as a fraction
ToScored(s) == [s EXCEPT !.Score = Rat(s.Score, 1)]

\* ------------------------------------------------------------- the ranker
\* sort.Slice(suggestions, func(i, j) bool { return suggestions[i].Score >
\* suggestions[j].Score }) on ranked scores: the insertion sort of SortSlice
RankInsertionStep(sorted, e) ==
    LET ahead == { i \in DOMAIN sorted : ~ScoreGreater(e.Score, sorted[i].Score) }
        k == IF ahead = {} THEN 0
             ELSE CHOOSE i \in ahead : \A j \in ahead : j <= i
    IN  SubSeq(sorted, 1, k) \o <<e>> \o SubSeq(sorted, k + 1, Len(sorted))

RECURSIVE RankInsertionSort(_)
RankInsertionSort(x) ==
    IF Len(x) <= 1 THEN x
    ELSE RankInsertionStep(RankInsertionSort(SubSeq(x, 1, Len(x) - 1)), x[Len(x)])

\* as SortSlice, on ranked scores
SortRanked(x) ==
    IF Len(x) <= InsertionSortLen THEN RankInsertionSort(x)
    ELSE [ k \in DOMAIN x |->
             x[CHOOSE i \in DOMAIN x :
                 Cardinality({ j \in DOMAIN x :
                                 ScoreGreater(x[j].Score, x[i].Score) }) = k - 1] ]

\* strings.Contains(suggestions[i].Category, "tech")
IsTech(category) == category \in { "tech" }

\* personalizeResults: Score *= 1.2 for the tech categories, in place, when
\* the request names a user or a session
personalizeResults(list, personal) ==
    [ i \in DOMAIN list |->
        IF personal /\ IsTech(list[i].Category)
        THEN [list[i] EXCEPT !.Score = RatMul(@, 6, 5)]
        ELSE list[i] ]

\* days between UpdatedAt and now below which a candidate counts as recent
RecentDays == 7

\* the ranker without the preference for shorter terms
BoostedNoLength(s, query) ==
    LET prefixed == IF IsPrefix(query, ToLower(s.Term))
                    THEN RatMul(s.Score, 2, 1) ELSE s.Score
    IN  IF s.UpdatedAt < RecentDays THEN RatMul(prefixed, 11, 10) ELSE prefixed

\* rankSuggestions, one candidate: score *= 2.0 for a prefix match; score *=
\* 1/(1 + len(Term)/10), len in bytes; score *= 1.1 when updated less than 7
\* days ago.  UpdatedAt is the candidate's age in days: a run lasts a few
\* ttl, which does not move it across the 7 days.
Boosted(s, query) ==
    LET prefixed == IF IsPrefix(query, ToLower(s.Term))
                    THEN RatMul(s.Score, 2, 1) ELSE s.Score
        shortened == RatMul(prefixed, 10, 10 + Len(Utf8(s.Term)))
    IN  IF s.UpdatedAt < RecentDays THEN RatMul(shortened, 11, 10) ELSE shortened

\* rankSuggestions: the scores are overwritten in place, then sort.Slice
rankSuggestions(list, query) ==
    SortRanked([ i \in DOMAIN list |->
                    [list[i] EXCEPT !.Score = Boosted(list[i], query)] ])

\* ------------------------------------------------------ the fuzzy search
\* the code point a byte that is no valid UTF-8 decodes to (utf8.RuneError)
RuneError == 65533

\* query[:len(query)-1] as Search reads it: the last byte is cut off, and
\* what is left of a multi-byte code point decodes to one RuneError per byte
DropLastByte(q) ==
    LET c == q[Len(q)]
    IN  SubSeq(q, 1, Len(q) - 1)
        \o [ i \in 1..(Len(Utf8Rune(c)) - 1) |-> RuneError ]

\* commonSubs: "ph": "f", "f": "ph", "c": "k", "k": "c", "z": "s", "s": "z",
\* "i": "y", "y": "i"
commonSubs ==
    { << <<112, 104>>, <<102>> >>, << <<102>>, <<112, 104>> >>,
      << <<99>>, <<107>> >>, << <<107>>, <<99>> >>,
      << <<122>>, <<115>> >>, << <<115>>, <<122>> >>,
      << <<105>>, <<121>> >>, << <<121>>, <<105>> >> }

\* strings.Contains(s, old)
Contains(s, old) ==
    \E i \in 1..(Len(s) - Len(old) + 1) : SubSeq(s, i, i + Len(old) - 1) = old

\* strings.ReplaceAll(s, old, new): the matches from left to right, not
\* overlapping
RECURSIVE ReplaceAll(_, _, _)
ReplaceAll(s, old, new) ==
    IF Len(s) < Len(old) THEN s
    ELSE IF SubSeq(s, 1, Len(old)) = old
    THEN new \o ReplaceAll(SubSeq(s, Len(old) + 1, Len(s)), old, new)
    ELSE <<s[1]>> \o ReplaceAll(Tail(s), old, new)

\* the lists a range over commonSubs can append, for the pairs in subs that
\* are still to come, each pair that applies searched with limit/2
RECURSIVE FuzzySubs(_, _, _, _)
FuzzySubs(tree, query, limit, subs) ==
    IF subs = {} THEN { <<>> }
    ELSE UNION {
        { first \o rest :
            first \in (IF Contains(query, sub[1])
                       THEN SearchOutcomes(tree,
                                ReplaceAll(query, sub[1], sub[2]), limit \div 2)
                       ELSE { <<>> }),
            rest \in FuzzySubs(tree, query, limit, subs \ {sub}) } :
        sub \in subs }

\* performFuzzySearch(query, limit): the search for the query without its
\* last byte, then the substitutions, then Score *= 0.8 on everything found
performFuzzySearch(tree, query, limit) ==
    LET shortened == IF Len(Utf8(query)) > 1
                     THEN SearchOutcomes(tree, DropLastByte(query), limit)
                     ELSE { <<>> }
        applicable == { sub \in commonSubs : Contains(query, sub[1]) }
    IN  { [ i \in DOMAIN (a \o b) |->
              [ToScored((a \o b)[i]) EXCEPT !.Score = RatMul(@, 4, 5)] ] :
          a \in shortened, b \in FuzzySubs(tree, query, limit, applicable) }

\* --------------------------------------------------------- invalidation
\* the key the service hands to the cache for a normalised query
CacheKey(query) == Utf8(query)

\* invalidateCacheForTerm: term = strings.ToLower(term); the keys term[:i]
\* for i from 1 to len(term), both in bytes
InvalidationKeys(term) ==
    LET b == Utf8(ToLower(term))
    IN  { SubSeq(b, 1, i) : i \in 1..Len(b) }

\* ------------------------------------------------------------ the service
\* the zero time.Time, as an UpdatedAt
ZeroTime == -1

\* the limit GetSuggestions uses when the request gives none
DefaultLimit == 10

\* AddSuggestion's defaults: UpdatedAt = time.Now() when zero, Score =
\* float64(Frequency) when 0
WithDefaults(s) ==
    [s EXCEPT !.UpdatedAt = IF @ = ZeroTime THEN 0 ELSE @,
              !.Score = IF @ = 0 THEN s.Frequency ELSE @]

\* the index after AddSuggestion of each element of list, in order
RECURSIVE Loaded(_)
Loaded(list) ==
    IF list = <<>> THEN [root |-> (<<>> :> NewNode), size |-> 0]
    ELSE LET before == Loaded(SubSeq(list, 1, Len(list) - 1))
         IN  InsertOutcome(before.root, before.size, WithDefaults(list[Len(list)]))

\* the smallest array name not in use
FreshRef(h) == CHOOSE r \in 1..(Cardinality(DOMAIN h) + 1) : r \notin DOMAIN h

\* the arrays some cache entry or some goroutine still points into
Collect(h, d, ts) ==
    [ r \in { x \in DOMAIN h : \/ \E k \in DOMAIN d : d[k].suggestions.ref = x
                               \/ \E task \in ts : task.kind = "set" /\ task.ref = x }
      |-> h[r] ]

\* the elements of a slice
Elements(h, slice) ==
    IF slice.n = 0 THEN <<>> ELSE SubSeq(h[slice.ref], 1, slice.n)

\* the array after its first Len(list) elements were overwritten with list
Overwrite(array, list) == list \o SubSeq(array, Len(list) + 1, Len(array))

\* the entry is there as far as Get can tell: InMemoryCache.Get compares
\* item.expiry with the clock, Redis drops the key when its ttl has run out
Live(d, key, t) == key \in DOMAIN d /\ ~Expired(d[key], t)

\* cache.Get(ctx, query) of either variant, taken in one piece: the entries
\* afterwards, found, and the slice returned.  InMemoryCache returns the
\* stored slice itself after deleting an expired entry; RedisCache returns
\* what json.Unmarshal builds and moves the expiry to now + ttl.
CacheGet(kind, d, key, t) ==
    IF ~Live(d, key, t)
    THEN [data |-> MapDelete(d, key), found |-> FALSE, suggestions |-> NoSlice]
    ELSE [data |-> IF kind = "redis"
                   THEN [d EXCEPT ![key].expiry = t + TTL] ELSE d,
          found |-> TRUE, suggestions |-> d[key].suggestions]

\* the search that calls what the fuzzy fallback found a result of the index
SearchedFuzzyAsTrie(tree, query, limit) ==
    LET exact == { [ i \in DOMAIN r |-> ToScored(r[i]) ] :
                   r \in SearchOutcomes(tree, query, limit * 2) }
        fuzzy == performFuzzySearch(tree, query, limit * 2)
    IN  { [suggestions |-> r, source |-> "trie"] : r \in exact \ { <<>> } }
        \cup (IF <<>> \in exact
              THEN { [suggestions |-> f, source |-> "trie"] : f \in fuzzy }
              ELSE {})

\* "If not in cache, search the trie": the lists and sources the index and
\* the fuzzy fallback can give.  The fallback runs when s.fuzzyMatcher != nil,
\* and NewAutocompleteService always sets it, whatever config.EnableFuzzy.
Searched(tree, query, limit) ==
    LET exact == { [ i \in DOMAIN r |-> ToScored(r[i]) ] :
                   r \in SearchOutcomes(tree, query, limit * 2) }
        fuzzy == performFuzzySearch(tree, query, limit * 2)
    IN  { [suggestions |-> r, source |-> "trie"] : r \in exact \ { <<>> } }
        \cup (IF <<>> \in exact
              THEN { [suggestions |-> f,
                      source |-> IF f = <<>> THEN "trie" ELSE "fuzzy"] : f \in fuzzy }
              ELSE {})

\* the response to a request: every return of GetSuggestions gives the error
\* nil
Response(req, list, source) ==
    [op |-> "GetSuggestions", query |-> req.Query, limit |-> req.Limit,
     personal |-> req.Personal, suggestions |-> list, source |-> source,
     at |-> now, ctx |-> "live", err |-> "nil"]

\* what s.cache.Get(ctx, query) can give: InMemoryCache does not look at
\* ctx; the Redis client, called with a context that is done, either
\* answers all the same or fails, which RedisCache.Get reports as a miss
CacheGetCtx(ctx, kind, d, key, t) ==
    { CacheGet(kind, d, key, t) }
    \cup (IF ctx = "expired" /\ kind = "redis"
          THEN { [data |-> d, found |-> FALSE, suggestions |-> NoSlice] }
          ELSE {})

\* GetSuggestions(ctx, req), with a context that is live or expired
GetSuggestionsCtx(ctx, req, budget) ==
    /\ calls < budget
    /\ calls' = calls + 1
    /\ \E got \in CacheGetCtx(ctx, variant, data,
                               CacheKey(Normalize(req.Query)), now) :
       LET query == Normalize(req.Query)
           limit == IF req.Limit <= 0 THEN DefaultLimit ELSE req.Limit
           cached == Elements(heap, got.suggestions)
           Resp(list, source) == [Response(req, list, source) EXCEPT !.ctx = ctx]
       IN  IF query = <<>>
           THEN /\ resp' = Resp(<<>>, "empty")
                /\ UNCHANGED <<data, heap, tasks>>
           ELSE IF got.found /\ cached # <<>>
           THEN LET ranked == rankSuggestions(
                                  personalizeResults(cached, req.Personal), query)
                IN  /\ resp' = Resp(Truncate(ranked, limit), "cache")
                    /\ data' = got.data
                    /\ heap' = IF variant = "memory"
                               THEN [heap EXCEPT ![got.suggestions.ref] =
                                        Overwrite(@, ranked)]
                               ELSE heap
                    /\ UNCHANGED tasks
           ELSE \E s \in Searched(root, query, limit) :
                    LET ranked == rankSuggestions(
                                      personalizeResults(s.suggestions,
                                                         req.Personal), query)
                        ref == FreshRef(heap)
                        task == [kind |-> "set", id |-> calls + 1,
                                 key |-> CacheKey(query), term |-> <<>>,
                                 ref |-> ref, full |-> Len(ranked),
                                 cut |-> Len(Truncate(ranked, limit)),
                                 pre |-> IF variant = "redis"
                                         THEN s.suggestions ELSE <<>>]
                    IN  /\ resp' = Resp(Truncate(ranked, limit), s.source)
                        /\ tasks' = IF ranked = <<>> THEN tasks
                                    ELSE tasks \cup {task}
                        /\ heap' = IF ranked = <<>>
                                   THEN Collect(heap, got.data, tasks)
                                   ELSE Collect(heap, got.data, tasks)
                                        @@ (ref :> ranked)
                        /\ data' = got.data
    /\ UNCHANGED <<variant, now, cproc, mutated>>
    /\ UNCHANGED pipeVars
    /\ UNCHANGED trieVars

\* GetSuggestions(ctx, req) of a caller whose context is live
GetSuggestions(req, budget) == GetSuggestionsCtx("live", req, budget)

\* the goroutine of "Cache the results" runs: s.cache.Set(ctx, query,
\* suggestions).  It reads the variable suggestions that GetSuggestions goes
\* on to rank in place and to cut to the limit, without synchronisation: the
\* slice it stores has the full or the cut length.  InMemoryCache keeps the
\* slice, RedisCache the JSON of what the array holds at that moment: the
\* list as searched when the goroutine ran first, the ranked one otherwise.
SetRun(task) ==
    /\ task \in tasks
    /\ task.kind = "set"
    /\ \E n \in { task.full, task.cut } :
       \E content \in { SubSeq(heap[task.ref], 1, n) }
                      \cup (IF variant = "redis" THEN { task.pre } ELSE {}) :
          LET left == tasks \ {task}
              ref == IF variant = "memory" THEN task.ref ELSE FreshRef(heap)
              entry == CacheItem(Slice(ref, IF variant = "memory" THEN n
                                            ELSE Len(content)), now)
              stored == MapSet(data, task.key, entry)
          IN  /\ data' = stored
              /\ heap' = Collect(IF variant = "memory" THEN heap
                                 ELSE heap @@ (ref :> content), stored, left)
              /\ tasks' = left
    /\ UNCHANGED <<variant, now, resp, calls, cproc, mutated>>
    /\ UNCHANGED pipeVars
    /\ UNCHANGED trieVars

\* the goroutine of invalidateCacheForTerm runs: s.cache.Delete for every key
InvalidateRun(task) ==
    /\ task \in tasks
    /\ task.kind = "invalidate"
    /\ LET kept == [ k \in DOMAIN data \ InvalidationKeys(task.term) |-> data[k] ]
           left == tasks \ {task}
       IN  /\ data' = kept
           /\ heap' = Collect(heap, kept, left)
           /\ tasks' = left
    /\ UNCHANGED <<variant, now, resp, calls, cproc, mutated>>
    /\ UNCHANGED pipeVars
    /\ UNCHANGED trieVars

\* InMemoryCache.cleanup, a whole sweep: the expired entries go
Reap ==
    /\ variant = "memory"
    /\ \E k \in DOMAIN data : Expired(data[k], now)
    /\ LET kept == [ k \in { x \in DOMAIN data : ~Expired(data[x], now) }
                     |-> data[k] ]
       IN  /\ data' = kept
           /\ heap' = Collect(heap, kept, tasks)
    /\ UNCHANGED <<variant, now, tasks, resp, calls, cproc, mutated>>
    /\ UNCHANGED pipeVars
    /\ UNCHANGED trieVars

\* the clock advances; a goroutine started with "go" has run by then
TickService ==
    /\ now < MaxTime
    /\ tasks = {}
    /\ now' = now + 1
    /\ UNCHANGED <<variant, data, heap, tasks, resp, calls, cproc, mutated>>
    /\ UNCHANGED pipeVars
    /\ UNCHANGED trieVars

\* a call that may change the index, for the record
Mutation(op, term, frequency, changed, started, ret) ==
    [op |-> op, term |-> term, frequency |-> frequency, at |-> now,
     changed |-> changed, started |-> started, ret |-> ret]

\* the goroutine started by "go s.invalidateCacheForTerm(term)"
InvalidateTask(term) ==
    [kind |-> "invalidate", id |-> ops + 1, key |-> <<>>, term |-> term,
     ref |-> 0, full |-> 0, cut |-> 0, pre |-> <<>>]

\* AddSuggestion(suggestion), whoever calls it
AddSuggestionCall(suggestion) ==
    /\ ops' = ops + 1
    /\ LET out == IF suggestion.Term = <<>> THEN [root |-> root, size |-> size]
                  ELSE InsertOutcome(root, size, WithDefaults(suggestion))
       IN  /\ root' = out.root
           /\ size' = out.size
           /\ mutated' = Mutation("AddSuggestion", suggestion.Term,
                                  suggestion.Frequency, out.root # root, {},
                                  TRUE)
    /\ UNCHANGED <<terms, last, inserted, concVars>>
    /\ UNCHANGED <<variant, now, data, heap, tasks, resp, calls, cproc>>

\* AddSuggestion(suggestion), called from outside the pipeline
AddSuggestion(suggestion, budget) ==
    /\ ops < budget
    /\ AddSuggestionCall(suggestion)
    /\ UNCHANGED pipeVars

\* AutocompleteService.UpdateFrequency(term, frequency), whoever calls it
UpdateFrequencyCall(term, frequency) ==
    /\ ops' = ops + 1
    /\ LET out == UpdateOutcome(root, term, frequency)
       IN  /\ root' = out
           /\ tasks' = tasks \cup { InvalidateTask(term) }
           /\ mutated' = Mutation("UpdateFrequency", term, frequency,
                                  out # root, { InvalidateTask(term) }, TRUE)
    /\ UNCHANGED <<terms, size, last, inserted, concVars>>
    /\ UNCHANGED <<variant, now, data, heap, resp, calls, cproc>>

\* AutocompleteService.UpdateFrequency(term, frequency), called from outside
\* the pipeline
ServiceUpdateFrequency(term, frequency, budget) ==
    /\ ops < budget
    /\ UpdateFrequencyCall(term, frequency)
    /\ UNCHANGED pipeVars

\* DeleteSuggestion(term)
DeleteSuggestion(term, budget) ==
    /\ ops < budget
    /\ ops' = ops + 1
    /\ LET out == DeleteOutcome(root, size, term)
           started == IF out.ret THEN { InvalidateTask(term) } ELSE {}
       IN  /\ root' = out.root
           /\ size' = out.size
           /\ tasks' = tasks \cup started
           /\ mutated' = Mutation("DeleteSuggestion", term, 0, out.root # root,
                                  started, out.ret)
    /\ UNCHANGED <<terms, last, inserted, concVars>>
    /\ UNCHANGED <<variant, now, data, heap, resp, calls, cproc>>
    /\ UNCHANGED pipeVars

\* what the callers of the service pass in: the terms of the family, with a
\* frequency, no score and no UpdatedAt
ServiceFreqs == { 2 }

AddsOver(family) ==
    { [Term |-> t, Frequency |-> f, Score |-> 0, Category |-> c,
       UpdatedAt |-> ZeroTime] :
      t \in family, f \in ServiceFreqs, c \in { "tech" } }

\* the requests: for the first code point c of a term, the prefix c without
\* a limit, the prefix in upper case with a limit for a known user, the
\* query c k that only the fuzzy search matches; a query nothing matches and
\* a blank one
RequestsOver(family) ==
    UNION { { [Query |-> <<t[1]>>, Limit |-> 0, Personal |-> FALSE],
              [Query |-> ToUpper(<<t[1]>>), Limit |-> 1, Personal |-> TRUE],
              [Query |-> <<t[1], 107>>, Limit |-> 1, Personal |-> FALSE] } :
            t \in family }
    \cup { [Query |-> <<120>>, Limit |-> 1, Personal |-> FALSE],
           [Query |-> <<32>>, Limit |-> 1, Personal |-> FALSE] }

NextService ==
    \/ \E req \in RequestsOver(terms) : GetSuggestions(req, MaxReqs)
    \/ \E task \in tasks : SetRun(task)
    \/ \E task \in tasks : InvalidateRun(task)
    \/ Reap
    \/ TickService
    \/ \E s \in AddsOver(terms) : AddSuggestion(s, MaxSvcOps)
    \/ \E term \in terms, f \in ServiceFreqs :
          ServiceUpdateFrequency(term, f, MaxSvcOps)
    \/ \E term \in terms : DeleteSuggestion(term, MaxSvcOps)

\* what the loader hands over at the start: two terms of one length with one
\* score, or a shorter term with a score just below that of a longer one
Bootstrap ==
    << [Term |-> <<97, 98>>, Frequency |-> 1, Score |-> 1, Category |-> "tech",
        UpdatedAt |-> 0],
       [Term |-> <<97, 99>>, Frequency |-> 1, Score |-> 1, Category |-> "fruit",
        UpdatedAt |-> 0] >>

Uneven ==
    << [Term |-> <<97, 98>>, Frequency |-> 10, Score |-> 10, Category |-> "tech",
        UpdatedAt |-> 0],
       [Term |-> <<97, 99, 100>>, Frequency |-> 11, Score |-> 11,
        Category |-> "fruit", UpdatedAt |-> 0] >>

ServiceLoads == { Bootstrap, Uneven }

\* NewAutocompleteService with either cache, then the loader
ServiceWith(family, loaded) ==
    /\ terms = family
    /\ root = Loaded(loaded).root
    /\ size = Loaded(loaded).size
    /\ ops = 0
    /\ last = NoCall
    /\ inserted = {}
    /\ mutex = [writer |-> 0, readers |-> {}]
    /\ proc = [p \in Procs |-> Idle]
    /\ committed = [root |-> Loaded(loaded).root, size |-> Loaded(loaded).size]
    /\ variant \in { "memory", "redis" }
    /\ NewCache

\* the same, and a pipeline built from a configuration without settings
InitWith(family, loaded) ==
    /\ NewDataPipeline(PipelineDefaults)
    /\ ServiceWith(family, loaded)

InitService ==
    /\ config = DefaultConfig
    /\ \E loaded \in ServiceLoads :
           InitWith({ loaded[i].Term : i \in DOMAIN loaded }, loaded)

SpecService == InitService /\ [][NextService]_vars

\* one query asked again and again while the clock runs and the frequency of
\* a term it matches is updated
StaleRequests(family) ==
    { [Query |-> <<t[1]>>, Limit |-> 0, Personal |-> FALSE] : t \in family }

NextStale ==
    \/ \E req \in StaleRequests(terms) : GetSuggestions(req, StaleReqs)
    \/ \E task \in tasks : SetRun(task)
    \/ \E task \in tasks : InvalidateRun(task)
    \/ Reap
    \/ TickService
    \/ \E term \in terms, f \in ServiceFreqs :
          ServiceUpdateFrequency(term, f, MaxSvcOps)

SpecStale == InitService /\ [][NextStale]_vars

\* the data of the integration test, in the order SetupSuite adds it: apple,
\* application, app, amazon, android
App == <<97, 112, 112>>
Apple == <<97, 112, 112, 108, 101>>
Application == <<97, 112, 112, 108, 105, 99, 97, 116, 105, 111, 110>>
Amazon == <<97, 109, 97, 122, 111, 110>>
Android == <<97, 110, 100, 114, 111, 105, 100>>

TestSuggestion(term, frequency, category) ==
    [Term |-> term, Frequency |-> frequency, Score |-> frequency,
     Category |-> category, UpdatedAt |-> 0]

testData ==
    << TestSuggestion(Apple, 1000, "fruit"),
       TestSuggestion(Application, 800, "tech"),
       TestSuggestion(App, 1200, "tech"),
       TestSuggestion(Amazon, 900, "company"),
       TestSuggestion(Android, 700, "tech") >>

\* the query of TestFuzzySearch, "aple"
Aple == <<97, 112, 108, 101>>

\* a query that is the prefix of no term and, without its last letter, of
\* three: "appk"
Appk == <<97, 112, 112, 107>>

\* the queries of TestAutocompleteGetEndpoint, "app" with limit 5, "a" with
\* limit 2, "xyz" with limit 5, and that of TestFuzzySearch with the default
\* limit of the handler
ScenarioRequests ==
    { [Query |-> App, Limit |-> 5, Personal |-> FALSE],
      [Query |-> <<97>>, Limit |-> 2, Personal |-> FALSE],
      [Query |-> <<120, 121, 122>>, Limit |-> 5, Personal |-> FALSE],
      [Query |-> Aple, Limit |-> DefaultLimit, Personal |-> FALSE],
      [Query |-> Appk, Limit |-> 5, Personal |-> FALSE] }

\* the service is built with fuzzy matching enabled, as the test suite does,
\* or disabled
InitScenario ==
    /\ config \in { [EnableFuzzy |-> b] : b \in BOOLEAN }
    /\ InitWith({ testData[i].Term : i \in DOMAIN testData }, testData)

NextScenario ==
    \/ \E req \in ScenarioRequests : GetSuggestions(req, ScenarioReqs)
    \/ DeleteSuggestion(Apple, ScenarioOps)
    \/ \E task \in tasks : SetRun(task)
    \/ Reap
    \/ TickService

SpecScenario == InitScenario /\ [][NextScenario]_vars

\* the same service, asked by callers whose deadline has passed or not
\* a query with a typo in its last letter that a substitution corrects:
\* "amas"
Amas == <<97, 109, 97, 115>>

\* the requests of the scenario, "app" asked for with limit 1, and "amas"
CtxRequests ==
    ScenarioRequests \cup { [Query |-> App, Limit |-> 1, Personal |-> FALSE],
                            [Query |-> Amas, Limit |-> 5, Personal |-> FALSE] }

NextCtx ==
    \/ \E req \in CtxRequests, ctx \in { "live", "expired" } :
           GetSuggestionsCtx(ctx, req, CtxReqs)
    \/ \E task \in tasks : SetRun(task)
    \/ Reap
    \/ TickService

SpecCtx == InitScenario /\ [][NextCtx]_vars

\* the largest limit the API documents: "limit (optional): Number of
\* suggestions (default: 10, max: 50)"
LimitCap == 50

\* one more candidate than the largest limit, all under one term: the
\* spellings of a six-letter word in upper and lower case, which Insert keeps
\* apart, each with a score of its own
Spelling(k) ==
    [ i \in 1..6 |-> IF (k \div (2 ^ (i - 1))) % 2 = 1 THEN 65 ELSE 97 ]

ManyLoad ==
    [ k \in 1..(LimitCap + 1) |->
        [Term |-> Spelling(k - 1), Frequency |-> k, Score |-> k,
         Category |-> "tech", UpdatedAt |-> 0] ]

\* the query "a" without a limit and with a limit above the largest
LimitRequests ==
    { [Query |-> <<97>>, Limit |-> k, Personal |-> FALSE] :
      k \in { 0, LimitCap + 1 } }

\* the service starts empty; the loader adds the candidates one by one, and
\* the requests come once it is through
InitLimit ==
    /\ config = DefaultConfig
    /\ InitWith({ ManyLoad[i].Term : i \in DOMAIN ManyLoad }, <<>>)

LimitLoaded == ops = Len(ManyLoad)

NextLimit ==
    \/ ~LimitLoaded /\ AddSuggestion(ManyLoad[ops + 1], Len(ManyLoad))
    \/ LimitLoaded /\ \E req \in LimitRequests : GetSuggestions(req, LimitReqs)
    \/ \E task \in tasks : SetRun(task)
    \/ Reap
    \/ LimitLoaded /\ TickService

SpecLimit == InitLimit /\ [][NextLimit]_vars

\* ------------------------------------------------------ the data pipeline
\* What the pipeline keeps of a models.SearchLog: the query and the time
SearchLog(query, t) == [Query |-> query, Timestamp |-> t]

\* the characters normalizeQuery's FieldsFunc does not split at: a-z, 0-9
\* and the space
IsQueryRune(c) == c \in 97..122 \/ c \in 48..57 \/ c = 32

\* strings.FieldsFunc(s, f) with f the complement of IsQueryRune: the
\* maximal runs of characters f rejects
RECURSIVE FieldsFunc(_)
FieldsFunc(s) ==
    IF s = <<>> THEN <<>>
    ELSE IF ~IsQueryRune(s[1]) THEN FieldsFunc(Tail(s))
    ELSE LET stops == { i \in DOMAIN s : ~IsQueryRune(s[i]) }
             n == IF stops = {} THEN Len(s)
                  ELSE (CHOOSE i \in stops : \A j \in stops : i <= j) - 1
         IN  <<SubSeq(s, 1, n)>> \o FieldsFunc(SubSeq(s, n + 1, Len(s)))

\* strings.Join(words, sep)
RECURSIVE Join(_, _)
Join(words, sep) ==
    IF words = <<>> THEN <<>>
    ELSE IF Len(words) = 1 THEN words[1]
    ELSE words[1] \o sep \o Join(Tail(words), sep)

\* normalizeQuery(query)
normalizeQuery(query) == Join(FieldsFunc(ToLower(TrimSpace(query))), <<32>>)

techTerms ==
    << <<97, 112, 112>>,
       <<115, 111, 102, 116, 119, 97, 114, 101>>,
       <<99, 111, 109, 112, 117, 116, 101, 114>>,
       <<116, 101, 99, 104>>,
       <<112, 114, 111, 103, 114, 97, 109, 109, 105, 110, 103>>,
       <<99, 111, 100, 101>>,
       <<97, 112, 105>>,
       <<119, 101, 98>>,
       <<109, 111, 98, 105, 108, 101>>,
       <<97, 110, 100, 114, 111, 105, 100>>,
       <<105, 111, 115>> >>

businessTerms ==
    << <<99, 111, 109, 112, 97, 110, 121>>,
       <<98, 117, 115, 105, 110, 101, 115, 115>>,
       <<115, 101, 114, 118, 105, 99, 101>>,
       <<112, 114, 111, 100, 117, 99, 116>>,
       <<109, 97, 114, 107, 101, 116>>,
       <<115, 97, 108, 101, 115>>,
       <<109, 97, 114, 107, 101, 116, 105, 110, 103>> >>

entertainmentTerms ==
    << <<109, 111, 118, 105, 101>>,
       <<109, 117, 115, 105, 99>>,
       <<103, 97, 109, 101>>,
       <<118, 105, 100, 101, 111>>,
       <<115, 104, 111, 119>>,
       <<101, 110, 116, 101, 114, 116, 97, 105, 110, 109, 101, 110, 116>>,
       <<115, 112, 111, 114, 116>>,
       <<98, 111, 111, 107>> >>

\* categorizeQuery(query): the first list with a word the query contains
categorizeQuery(query) ==
    LET q == ToLower(query)
        Has(list) == \E i \in DOMAIN list : Contains(q, list[i])
    IN  IF Has(techTerms) THEN "tech"
        ELSE IF Has(businessTerms) THEN "business"
        ELSE IF Has(entertainmentTerms) THEN "entertainment"
        ELSE "general"

\* m[key], 0 when the key is not in the map
Count(m, key) == IF key \in DOMAIN m THEN m[key] ELSE 0

\* m[key] += n
MapAdd(m, key, n) == MapSet(m, key, Count(m, key) + n)

\* the queries logged: "ab", which is in the index, and "A!", which
\* normalises to the one-letter "a"
PipeQueries == { <<97, 98>>, <<65, 33>> }

\* the queries of a run in which the pipeline is not stopped, "a" and "B!":
\* shorter than what extractNewSuggestions takes up, so processBatch leaves
\* the index alone
BatchQueries == { <<97>>, <<66, 33>> }

\* the query of a burst, "zigzag"
Zigzag == <<122, 105, 103, 122, 97, 103>>

\* normalizeQuery of every query that is logged, worked out once
normalized ==
    [query \in PipeQueries \cup BatchQueries \cup { Zigzag } |->
        normalizeQuery(query)]

\* processBatch's first loop: queryFreq[normalizeQuery(log.Query)]++ for the
\* logs whose normalised query is not empty
Aggregate(logs) ==
    LET queries == { normalized[logs[i].Query] : i \in DOMAIN logs }
    IN  [q \in queries \ { <<>> } |->
            Cardinality({ i \in DOMAIN logs : normalized[logs[i].Query] = q })]

\* target[query] += count for every entry of queryFreq
MergeInto(target, queryFreq) ==
    [q \in DOMAIN target \cup DOMAIN queryFreq |->
        Count(target, q) + Count(queryFreq, q)]

\* the suggestion extractNewSuggestions builds for a query seen freq times
ExtractedSuggestion(query, freq, t) ==
    [Term |-> query, Frequency |-> freq, Score |-> freq,
     Category |-> categorizeQuery(query), UpdatedAt |-> t]

\* extractNewSuggestions skips the queries of fewer than 2 or more than 50
\* bytes
Extractable(query) == Len(Utf8(query)) >= 2 /\ Len(Utf8(query)) <= 50

\* time.Hour, in ticks of the clock
Hour == 1

\* analyzeTrends, first loop: the timestamps after dayAgo
RecentOf(timestamps, t) ==
    SelectSeq(timestamps, LAMBDA ts : ts > t - 24 * Hour)

\* analyzeTrends: the queries with at least 5 recent timestamps whose
\* trendScore hourCount / (dayCount - hourCount) is above 1.5, each with
\* int64(float64(len(recent)) * (1.0 + trendScore))
Trending(recentQueries, t) ==
    LET recent(q) == RecentOf(recentQueries[q], t)
        hourCount(q) == Len(SelectSeq(recent(q), LAMBDA ts : ts > t - Hour))
        dayCount(q) == Len(recent(q))
        hot == { q \in DOMAIN recentQueries :
                   /\ dayCount(q) >= 5
                   /\ dayCount(q) > hourCount(q)
                   /\ 2 * hourCount(q) > 3 * (dayCount(q) - hourCount(q)) }
    IN  [q \in hot |-> (dayCount(q) * dayCount(q)) \div
                       (dayCount(q) - hourCount(q))]

\* a panic ends the process: nothing runs once a caller of Stop has panicked
Alive == \A c \in Stoppers : stopper[c] # "panicked"

\* Start(ctx): three times wg.Add(1) and "go"
Start ==
    /\ Alive
    /\ \A w \in Workers : worker[w].pc = "none"
    /\ wg' = wg + 3
    /\ worker' = [w \in Workers |-> [NotStarted EXCEPT !.pc = "select"]]
    /\ UNCHANGED <<reply, batches>>
    /\ UNCHANGED <<config, pipeConfig, logQueue, freqUpdates, freqMutex,
                  stopChan, stopper, errorsTotal, logged, accepted, merged,
                  handed, atStop>>
    /\ UNCHANGED trieVars
    /\ UNCHANGED svcVars

\* Stop(), first statement: close(p.stopChan), which panics on a channel
\* that is closed already
StopClose(c) ==
    /\ Alive
    /\ stopper[c] = "idle"
    /\ IF stopChan = "closed"
       THEN /\ stopper' = [stopper EXCEPT ![c] = "panicked"]
            /\ UNCHANGED <<stopChan, atStop>>
       ELSE /\ stopper' = [stopper EXCEPT ![c] = "waiting"]
            /\ stopChan' = "closed"
            /\ atStop' = [started |-> \A w \in Workers : worker[w].pc # "none",
                           accepted |-> accepted]
    /\ UNCHANGED <<reply, batches>>
    /\ UNCHANGED <<config, pipeConfig, logQueue, freqUpdates, freqMutex, wg,
                  worker, errorsTotal, logged, accepted, merged, handed>>
    /\ UNCHANGED trieVars
    /\ UNCHANGED svcVars

\* Stop(), second statement: p.wg.Wait() returns when the counter is 0
StopWait(c) ==
    /\ Alive
    /\ stopper[c] = "waiting"
    /\ wg = 0
    /\ stopper' = [stopper EXCEPT ![c] = "returned"]
    /\ UNCHANGED <<reply, batches>>
    /\ UNCHANGED <<config, pipeConfig, logQueue, freqUpdates, freqMutex,
                  stopChan, wg, worker, errorsTotal, logged, accepted,
                  merged, handed, atStop>>
    /\ UNCHANGED trieVars
    /\ UNCHANGED svcVars

\* can a send on p.logQueue proceed
HasRoomAlways == TRUE

HasRoom == Len(logQueue) < pipeConfig.QueueSize

\* LogQuery(log): the send when the channel has room, the default case
\* when it has none
LogQuery(query, budget) ==
    /\ Alive
    /\ logged.calls < budget
    /\ IF HasRoom
       THEN /\ logQueue' = Append(logQueue, SearchLog(query, now))
            /\ accepted' = MapAdd(accepted, normalizeQuery(query), 1)
            /\ UNCHANGED errorsTotal
            /\ logged' = [query |-> query, ret |-> "nil",
                          before |-> Len(logQueue), after |-> Len(logQueue) + 1,
                          errors |-> errorsTotal, calls |-> logged.calls + 1]
       ELSE /\ errorsTotal' = errorsTotal + 1
            /\ UNCHANGED <<logQueue, accepted>>
            /\ logged' = [query |-> query, ret |-> "error",
                          before |-> Len(logQueue), after |-> Len(logQueue),
                          errors |-> errorsTotal, calls |-> logged.calls + 1]
    /\ UNCHANGED <<reply, batches>>
    /\ UNCHANGED <<config, pipeConfig, freqUpdates, freqMutex, stopChan, wg,
                  worker, stopper, merged, handed, atStop>>
    /\ UNCHANGED trieVars
    /\ UNCHANGED svcVars

\* the same, the buffer left as it is
ReturnedKeeping(rec) ==
    IF rec.final THEN [rec EXCEPT !.pc = "done"]
    ELSE [rec EXCEPT !.pc = "select"]

\* processBatch has returned: processLogs goes on with logs[:0], or returns
\* and runs the deferred wg.Done()
Returned(rec) ==
    IF rec.final THEN [rec EXCEPT !.pc = "done"]
    ELSE [rec EXCEPT !.pc = "select", !.logs = <<>>]

\* processBatch(logs) up to the lock: nothing to do for no logs, else the
\* first loop
EnterBatch(rec) ==
    IF rec.logs = <<>> THEN Returned(rec)
    ELSE [rec EXCEPT !.pc = "merge", !.queryFreq = Aggregate(rec.logs)]

\* the record of the processBatch calls after one with these logs
Batched(logs) == IF logs = <<>> THEN batches ELSE Append(batches, logs)

\* what the deferred wg.Done() of worker w leaves of the counter
Done(w, rec) == IF rec.pc = "done" THEN wg - 1 ELSE wg

\* processLogs, case <-p.stopChan: processBatch(logs); return
ProcessLogsStop ==
    LET w == "processLogs"
        rec == EnterBatch([worker[w] EXCEPT !.final = TRUE])
    IN  /\ Alive
        /\ worker[w].pc = "select"
        /\ stopChan = "closed"
        /\ worker' = [worker EXCEPT ![w] = rec]
        /\ wg' = Done(w, rec)
        /\ batches' = Batched(worker[w].logs)
    /\ UNCHANGED reply
    /\ UNCHANGED <<config, pipeConfig, logQueue, freqUpdates, freqMutex,
                  stopChan, stopper, errorsTotal, logged, accepted, merged,
                  handed, atStop>>
    /\ UNCHANGED trieVars
    /\ UNCHANGED svcVars

\* processLogs, case log := <-p.logQueue: append, and processBatch when the
\* buffer has reached batchSize
ProcessLogsReceive ==
    LET w == "processLogs"
        got == [worker[w] EXCEPT !.logs = Append(@, Head(logQueue))]
    IN  /\ Alive
        /\ worker[w].pc = "select"
        /\ logQueue # <<>>
        /\ logQueue' = Tail(logQueue)
        /\ worker' = [worker EXCEPT ![w] =
                         IF Len(got.logs) >= pipeConfig.BatchSize
                         THEN EnterBatch(got) ELSE got]
        /\ batches' = IF Len(got.logs) >= pipeConfig.BatchSize
                      THEN Batched(got.logs) ELSE batches
    /\ UNCHANGED reply
    /\ UNCHANGED <<config, pipeConfig, freqUpdates, freqMutex, stopChan, wg,
                  stopper, errorsTotal, logged, accepted, merged, handed,
                  atStop>>
    /\ UNCHANGED trieVars
    /\ UNCHANGED svcVars

\* processLogs, case <-ticker.C, ready whenever flushInterval has passed:
\* processBatch when the buffer is not empty
ProcessLogsTick ==
    LET w == "processLogs"
        rec == worker[w]
    IN  /\ Alive
        /\ worker[w].pc = "select"
        /\ worker' = [worker EXCEPT ![w] =
                         IF rec.logs # <<>> THEN EnterBatch(rec) ELSE rec]
        /\ batches' = Batched(rec.logs)
    /\ UNCHANGED reply
    /\ UNCHANGED <<config, pipeConfig, logQueue, freqUpdates, freqMutex,
                  stopChan, wg, stopper, errorsTotal, logged, accepted,
                  merged, handed, atStop>>
    /\ UNCHANGED trieVars
    /\ UNCHANGED svcVars

\* may a worker take freqMutex
CanLockFreqAlways(w) == TRUE

CanLockFreq(w) == freqMutex = "free"

\* processBatch, from p.freqMutex.Lock() to Unlock(): freqUpdates[query] +=
\* count for the whole of queryFreq
ProcessBatchMerge ==
    LET w == "processLogs"
        rec == [worker[w] EXCEPT !.pc = "extract"]
    IN  /\ Alive
        /\ worker[w].pc = "merge"
        /\ CanLockFreq(w)
        /\ freqUpdates' = MergeInto(freqUpdates, worker[w].queryFreq)
        /\ merged' = MergeInto(merged, worker[w].queryFreq)
        /\ worker' = [worker EXCEPT ![w] =
                         IF rec.queryFreq = EmptyMap THEN Returned(rec) ELSE rec]
        /\ wg' = Done(w, worker'[w])
    /\ UNCHANGED <<reply, batches>>
    /\ UNCHANGED <<config, pipeConfig, logQueue, freqMutex, stopChan,
                  stopper, errorsTotal, logged, accepted, handed, atStop>>
    /\ UNCHANGED trieVars
    /\ UNCHANGED svcVars

\* extractNewSuggestions, one turn of the range over queryFreq, in whatever
\* order the map gives: AddSuggestion unless the query is too short or too
\* long; after the last turn processBatch returns
ExtractNewSuggestion ==
    LET w == "processLogs" IN
    /\ Alive
    /\ worker[w].pc = "extract"
    /\ \E query \in DOMAIN worker[w].queryFreq :
          LET rest == MapDelete(worker[w].queryFreq, query)
              rec == [worker[w] EXCEPT !.queryFreq = rest]
          IN  /\ worker' = [worker EXCEPT ![w] =
                               IF rest = EmptyMap THEN Returned(rec) ELSE rec]
              /\ wg' = Done(w, worker'[w])
              /\ IF Extractable(query)
                 THEN AddSuggestionCall(
                          ExtractedSuggestion(query, worker[w].queryFreq[query],
                                              now))
                 ELSE UNCHANGED trieVars /\ UNCHANGED svcVars
    /\ UNCHANGED <<reply, batches>>
    /\ UNCHANGED <<config, pipeConfig, logQueue, freqUpdates, freqMutex,
                  stopChan, stopper, errorsTotal, logged, accepted, merged,
                  handed, atStop>>

\* updateFrequencies, case <-p.stopChan: flushFrequencyUpdates(); return
UpdateFrequenciesStop ==
    LET w == "updateFrequencies" IN
    /\ Alive
    /\ worker[w].pc = "select"
    /\ stopChan = "closed"
    /\ worker' = [worker EXCEPT ![w].pc = "lock", ![w].final = TRUE]
    /\ UNCHANGED <<reply, batches>>
    /\ UNCHANGED <<config, pipeConfig, logQueue, freqUpdates, freqMutex,
                  stopChan, wg, stopper, errorsTotal, logged, accepted,
                  merged, handed, atStop>>
    /\ UNCHANGED trieVars
    /\ UNCHANGED svcVars

\* updateFrequencies, case <-ticker.C, ready whenever twice flushInterval
\* has passed: flushFrequencyUpdates()
UpdateFrequenciesTick ==
    LET w == "updateFrequencies" IN
    /\ Alive
    /\ worker[w].pc = "select"
    /\ worker' = [worker EXCEPT ![w].pc = "lock"]
    /\ UNCHANGED <<reply, batches>>
    /\ UNCHANGED <<config, pipeConfig, logQueue, freqUpdates, freqMutex,
                  stopChan, wg, stopper, errorsTotal, logged, accepted,
                  merged, handed, atStop>>
    /\ UNCHANGED trieVars
    /\ UNCHANGED svcVars

\* flushFrequencyUpdates: p.freqMutex.Lock() and the loop that copies
\* p.freqUpdates into updates
FlushCopy ==
    LET w == "updateFrequencies" IN
    /\ Alive
    /\ worker[w].pc = "lock"
    /\ CanLockFreq(w)
    /\ freqMutex' = w
    /\ worker' = [worker EXCEPT ![w].pc = "clear", ![w].updates = freqUpdates]
    /\ UNCHANGED <<reply, batches>>
    /\ UNCHANGED <<config, pipeConfig, logQueue, freqUpdates, stopChan, wg,
                  stopper, errorsTotal, logged, accepted, merged, handed,
                  atStop>>
    /\ UNCHANGED trieVars
    /\ UNCHANGED svcVars

\* flushFrequencyUpdates: p.freqUpdates = make(map[string]int64), Unlock(),
\* and the return when updates is empty
FlushClear ==
    LET w == "updateFrequencies"
        rec == [worker[w] EXCEPT !.pc = "apply"]
    IN  /\ Alive
        /\ worker[w].pc = "clear"
        /\ freqUpdates' = EmptyMap
        /\ freqMutex' = "free"
        /\ worker' = [worker EXCEPT ![w] =
                         IF rec.updates = EmptyMap THEN Returned(rec) ELSE rec]
        /\ wg' = Done(w, worker'[w])
    /\ UNCHANGED <<reply, batches>>
    /\ UNCHANGED <<config, pipeConfig, logQueue, stopChan, stopper,
                  errorsTotal, logged, accepted, merged, handed, atStop>>
    /\ UNCHANGED trieVars
    /\ UNCHANGED svcVars

\* flushFrequencyUpdates, one turn of the range over updates:
\* p.service.UpdateFrequency(query, count)
FlushApply ==
    LET w == "updateFrequencies" IN
    /\ Alive
    /\ worker[w].pc = "apply"
    /\ \E query \in DOMAIN worker[w].updates :
          LET rest == MapDelete(worker[w].updates, query)
              rec == [worker[w] EXCEPT !.updates = rest]
          IN  /\ worker' = [worker EXCEPT ![w] =
                               IF rest = EmptyMap THEN Returned(rec) ELSE rec]
              /\ wg' = Done(w, worker'[w])
              /\ handed' = MapAdd(handed, query, worker[w].updates[query])
              /\ UpdateFrequencyCall(query, worker[w].updates[query])
    /\ UNCHANGED <<reply, batches>>
    /\ UNCHANGED <<config, pipeConfig, logQueue, freqUpdates, freqMutex,
                  stopChan, stopper, errorsTotal, logged, accepted, merged,
                  atStop>>

\* detectTrending, case <-p.stopChan: return
DetectTrendingStop ==
    LET w == "detectTrending" IN
    /\ Alive
    /\ worker[w].pc = "select"
    /\ stopChan = "closed"
    /\ worker' = [worker EXCEPT ![w].pc = "done", ![w].final = TRUE]
    /\ wg' = wg - 1
    /\ UNCHANGED <<reply, batches>>
    /\ UNCHANGED <<config, pipeConfig, logQueue, freqUpdates, freqMutex,
                  stopChan, stopper, errorsTotal, logged, accepted, merged,
                  handed, atStop>>
    /\ UNCHANGED trieVars
    /\ UNCHANGED svcVars

\* the index after UpdateFrequency(query, boosts[query]) for each query
RECURSIVE ApplyBoosts(_, _)
ApplyBoosts(tree, boosts) ==
    IF DOMAIN boosts = {} THEN tree
    ELSE LET query == CHOOSE q \in DOMAIN boosts : TRUE
         IN  ApplyBoosts(UpdateOutcome(tree, query, boosts[query]),
                      MapDelete(boosts, query))

\* detectTrending, case <-ticker.C, ready whenever an hour has passed:
\* analyzeTrends(recentQueries, &mutex), which drops the timestamps older than a day and calls UpdateFrequency for
\* every trending query
AnalyzeTrends ==
    LET w == "detectTrending"
        recent == worker[w].recentQueries
        boosts == Trending(recent, now)
    IN  /\ Alive
        /\ worker[w].pc = "select"
        /\ worker' = [worker EXCEPT
                         ![w].seen = accepted,
                         ![w].recentQueries =
                             [q \in DOMAIN recent |-> RecentOf(recent[q], now)]]
        /\ root' = ApplyBoosts(root, boosts)
        /\ ops' = ops + Cardinality(DOMAIN boosts)
        /\ tasks' = tasks \cup { InvalidateTask(q) : q \in DOMAIN boosts }
        /\ UNCHANGED <<terms, size, last, inserted, concVars>>
        /\ UNCHANGED <<variant, now, data, heap, resp, calls, cproc, mutated>>
    /\ UNCHANGED <<reply, batches>>
    /\ UNCHANGED <<config, pipeConfig, logQueue, freqUpdates, freqMutex,
                  stopChan, wg, stopper, errorsTotal, logged, accepted,
                  merged, handed, atStop>>

\* ------------------------------------------- the pipeline, specification
\* the index the pipeline works on: "ab", searched 5 times so far
PipeLoad ==
    << [Term |-> <<97, 98>>, Frequency |-> 5, Score |-> 0,
        Category |-> "tech", UpdatedAt |-> ZeroTime] >>

InitPipe ==
    /\ config = DefaultConfig
    /\ NewDataPipeline([BatchSize |-> PipeBatch, QueueSize |-> PipeQueue])
    /\ ServiceWith(PipeQueries, PipeLoad)
    /\ variant = "memory"

\* the steps of the three workers
WorkerStep ==
    \/ ProcessLogsStop
    \/ ProcessLogsReceive
    \/ ProcessLogsTick
    \/ ProcessBatchMerge
    \/ ExtractNewSuggestion
    \/ UpdateFrequenciesStop
    \/ UpdateFrequenciesTick
    \/ FlushCopy
    \/ FlushClear
    \/ FlushApply
    \/ DetectTrendingStop
    \/ AnalyzeTrends

NextPipe ==
    \/ Start
    \/ \E c \in Stoppers : StopClose(c)
    \/ \E c \in Stoppers : StopWait(c)
    \/ \E query \in PipeQueries : LogQuery(query, MaxEvents)
    \/ WorkerStep

SpecPipe == InitPipe /\ [][NextPipe]_vars

\* --------------------------------------- the pipeline while it is running
\* Start, the producers and the workers' steps that do not wait for Stop
NextBatch ==
    \/ Start
    \/ \E query \in BatchQueries : LogQuery(query, BatchEvents)
    \/ ProcessLogsReceive
    \/ ProcessLogsTick
    \/ ProcessBatchMerge
    \/ ExtractNewSuggestion
    \/ UpdateFrequenciesTick
    \/ FlushCopy
    \/ FlushClear
    \/ FlushApply
    \/ AnalyzeTrends

\* a step of the goroutine processLogs while the pipeline runs
ProcessLogsStep ==
    \/ ProcessLogsReceive
    \/ ProcessLogsTick
    \/ ProcessBatchMerge
    \/ ExtractNewSuggestion

\* The scheduler runs a goroutine that can run, and the ticker of
\* processLogs fires again and again.  processBatch's Lock can proceed only
\* while flushFrequencyUpdates does not hold freqMutex, which it takes over
\* and over; sync.Mutex hands the lock to a goroutine that has waited for it
\* (starvation mode), so a step of processLogs that can be taken again and
\* again is taken: strong fairness.  flushFrequencyUpdates, once it holds
\* the lock, gets to unlock it: weak fairness.
BatchFairness ==
    /\ SF_vars(ProcessLogsStep)
    /\ WF_vars(FlushClear)

SpecBatch == InitPipe /\ [][NextBatch]_vars /\ BatchFairness

\* ------------------------------------------------- a burst of one query
\* an empty index and a pipeline with the configuration NewDataPipeline
\* falls back to
InitTrend ==
    /\ config = DefaultConfig
    /\ NewDataPipeline(PipelineDefaults)
    /\ ServiceWith({ Zigzag }, <<>>)
    /\ variant = "memory"

\* the burst is over
Burst == logged.calls = TrendEvents

\* "zigzag" is logged TrendEvents times within one tick of the clock and
\* within one flushInterval, so processLogs' ticker stays silent; the
\* workers get to run when the burst is over
NextTrend ==
    \/ Start
    \/ LogQuery(Zigzag, TrendEvents)
    \/ Burst /\ ProcessLogsReceive
    \/ Burst /\ ProcessBatchMerge
    \/ Burst /\ ExtractNewSuggestion
    \/ Burst /\ UpdateFrequenciesTick
    \/ Burst /\ FlushCopy
    \/ Burst /\ FlushClear
    \/ Burst /\ FlushApply
    \/ Burst /\ AnalyzeTrends

SpecTrend == InitTrend /\ [][NextTrend]_vars

\* ------------------------------------------------------ the admin handlers
\* simple case folding as the (?i) of Go's regexp applies it to the letters
\* of "script" and "javascript": upper case, and U+017F for s
FoldRune(c) == IF c = 383 THEN 115 ELSE IF c \in 65..90 THEN c + 32 ELSE c

\* the alternatives of ValidateTerm's pattern
\* (?i)(script|javascript|<|>|&lt;|&gt;)
dangerous ==
    { <<115, 99, 114, 105, 112, 116>>, <<106, 97, 118, 97, 115, 99, 114, 105, 112, 116>>,
      <<60>>, <<62>>, <<38, 108, 116, 59>>, <<38, 103, 116, 59>> }

\* len(term): the number of bytes of the string
ByteLen(s) ==
    Cardinality({ p \in (DOMAIN s) \X (1..4) : p[2] <= Len(Utf8Rune(s[p[1]])) })

\* utils.ValidateTerm(term): "nil" or the error
ValidateTerm(term) ==
    LET folded == [i \in DOMAIN term |-> FoldRune(term[i])]
    IN  IF ByteLen(term) = 0 THEN "term cannot be empty"
        ELSE IF ByteLen(term) > 200 THEN "term too long"
        ELSE IF \E d \in dangerous : Contains(folded, d)
        THEN "term contains dangerous content"
        ELSE "nil"

\* the value of a string of decimal digits
RECURSIVE DigitsValue(_)
DigitsValue(s) ==
    IF s = <<>> THEN 0
    ELSE 10 * DigitsValue(SubSeq(s, 1, Len(s) - 1)) + (s[Len(s)] - 48)

\* strconv.ParseInt(s, 10, 64) for the strings short enough to fit: an
\* optional sign and at least one digit
ParseInt(s) ==
    LET signed == s # <<>> /\ s[1] \in { 43, 45 }
        digits == IF signed THEN Tail(s) ELSE s
    IN  IF digits = <<>> \/ \E i \in DOMAIN digits : digits[i] \notin 48..57
        THEN [err |-> TRUE, value |-> 0]
        ELSE [err |-> FALSE,
              value |-> IF signed /\ s[1] = 45 THEN 0 - DigitsValue(digits)
                        ELSE DigitsValue(digits)]

\* c.JSON(status, ...)
Reply(handler, list, status) ==
    [handler |-> handler, terms |-> list, status |-> status, n |-> reply.n + 1]

\* the handler answers without calling the service
Refuse(handler, list, status) ==
    /\ reply' = Reply(handler, list, status)
    /\ UNCHANGED <<config, pipeConfig, logQueue, freqUpdates, freqMutex,
                  stopChan, wg, worker, stopper, errorsTotal, logged, accepted,
                  merged, handed, atStop, batches>>
    /\ UNCHANGED trieVars
    /\ UNCHANGED svcVars

\* the handler answers after the call of the service
Answer(handler, list, status) ==
    /\ reply' = Reply(handler, list, status)
    /\ UNCHANGED <<config, pipeConfig, logQueue, freqUpdates, freqMutex,
                  stopChan, wg, worker, stopper, errorsTotal, logged, accepted,
                  merged, handed, atStop, batches>>

\* UpdateFrequencyHandler: PUT /admin/suggestions/:term/frequency?frequency=
UpdateFrequencyHandler(term, frequencyStr, budget) ==
    LET h == "UpdateFrequency"
        parsed == ParseInt(frequencyStr)
    IN  /\ reply.n < budget
        /\ IF term = <<>> \/ ValidateTerm(term) # "nil" THEN Refuse(h, <<term>>, 400)
           ELSE IF frequencyStr = <<>> THEN Refuse(h, <<term>>, 400)
           ELSE IF parsed.err \/ parsed.value < 0 THEN Refuse(h, <<term>>, 400)
           ELSE /\ UpdateFrequencyCall(term, parsed.value)
                /\ Answer(h, <<term>>, 200)

\* AddSuggestionHandler: POST /admin/suggestions
AddSuggestionHandler(suggestion, budget) ==
    LET h == "AddSuggestion" IN
    /\ reply.n < budget
    /\ IF suggestion.Term = <<>> \/ ValidateTerm(suggestion.Term) # "nil"
       THEN Refuse(h, <<suggestion.Term>>, 400)
       ELSE /\ AddSuggestionCall(WithDefaults(suggestion))
            /\ Answer(h, <<suggestion.Term>>, 201)

\* BatchAddSuggestions(suggestions): AddSuggestion of each, in order
RECURSIVE BatchOutcome(_, _, _)
BatchOutcome(tree, sz, suggestions) ==
    IF suggestions = <<>> THEN [root |-> tree, size |-> sz]
    ELSE LET s == Head(suggestions)
             out == IF s.Term = <<>> THEN [root |-> tree, size |-> sz]
                    ELSE InsertOutcome(tree, sz, WithDefaults(s))
         IN  BatchOutcome(out.root, out.size, Tail(suggestions))

\* BatchAddSuggestionsHandler: POST /admin/suggestions/batch
BatchAddSuggestionsHandler(suggestions, budget) ==
    LET h == "BatchAddSuggestions"
        list == [i \in DOMAIN suggestions |-> suggestions[i].Term]
        out == BatchOutcome(root, size, suggestions)
    IN  /\ reply.n < budget
        /\ IF Len(suggestions) = 0 \/ Len(suggestions) > 1000
           THEN Refuse(h, list, 400)
           ELSE IF \E i \in DOMAIN suggestions :
                      ValidateTerm(suggestions[i].Term) # "nil"
           THEN Refuse(h, list, 400)
           ELSE /\ root' = out.root
                /\ size' = out.size
                /\ ops' = ops + Len(suggestions)
                /\ mutated' = Mutation("AddSuggestion",
                                       suggestions[Len(suggestions)].Term,
                                       suggestions[Len(suggestions)].Frequency,
                                       out.root # root, {}, TRUE)
                /\ UNCHANGED <<terms, last, inserted, concVars>>
                /\ UNCHANGED <<variant, now, data, heap, tasks, resp, calls,
                              cproc>>
                /\ Answer(h, list, 201)

\* the terms the admin sends: "ab", which is in the index; "cd", which is
\* not; "a&", "<", "sCript", a term of 201 letters and the empty term
LongTerm == [i \in 1..201 |-> 97]

AdminTerms ==
    { <<97, 98>>, <<99, 100>>, <<97, 38>>, <<60>>, <<115, 67, 114, 105, 112, 116>>, LongTerm, <<>> }

AdminSuggestion(term) ==
    [Term |-> term, Frequency |-> 2, Score |-> 0, Category |-> "tech",
     UpdatedAt |-> ZeroTime]

\* the batches: one or two suggestions, and none
AdminBatches ==
    { <<>> } \cup { <<AdminSuggestion(a)>> : a \in AdminTerms }
             \cup { <<AdminSuggestion(<<99, 100>>), AdminSuggestion(a)>> :
                    a \in AdminTerms }

\* the values of the query parameter "frequency": "7", "-1", "x" and none
AdminFrequencies == { <<55>>, <<45, 49>>, <<120>>, <<>> }

InitAdmin ==
    /\ config = DefaultConfig
    /\ NewDataPipeline(PipelineDefaults)
    /\ ServiceWith(AdminTerms, PipeLoad)
    /\ variant = "memory"

NextAdmin ==
    \/ \E term \in AdminTerms, f \in AdminFrequencies :
           UpdateFrequencyHandler(term, f, MaxAdmin)
    \/ \E term \in AdminTerms :
           AddSuggestionHandler(AdminSuggestion(term), MaxAdmin)
    \/ \E batch \in AdminBatches : BatchAddSuggestionsHandler(batch, MaxAdmin)
    \/ \E task \in tasks : InvalidateRun(task)

SpecAdmin == InitAdmin /\ [][NextAdmin]_vars

\* shape of the tree: the root is there and every node hangs off its parent
TypeOK ==
    /\ <<>> \in DOMAIN root
    /\ \A p \in DOMAIN root : Prefixes(p) \subseteq DOMAIN root
    /\ ops \in 0..MaxOps

\* the writes of a call, taken one at a time, end where the call taken in one
\* piece ends
StepsReachOutcome ==
    \A p \in Procs :
        (proc[p].pc = "writing" /\ proc[p].plan = <<>>) =>
            Step(root, size) = WriteOutcome(proc[p], committed.root, committed.size)

\* ---------------------------------------------------------- claim helpers
\* the candidates in the subtree under the normalised prefix p, in one of the
\* orders collectSuggestions can produce
Under(tree, p) ==
    IF p \in DOMAIN tree THEN CHOOSE c \in collectSuggestions(tree, p) : TRUE
    ELSE <<>>

HasTerm(list, t) == \E i \in DOMAIN list : list[i].Term = t

\* number of entries of list equal to x
Occurrences(list, x) == Cardinality({ i \in DOMAIN list : list[i] = x })

\* ------------------------------------------------------------------ claims

\* C1: a Search for a non-empty prefix p of the case-folded term of a
\* suggestion that was inserted and not deleted since returns a candidate with
\* that term, when the limit is at least the number of candidates under p.
C1_InsertedIsFound ==
    last.op = "Search" =>
        \A t \in inserted :
            ( /\ last.term \in Prefixes(Normalize(t))
              /\ last.arg >= Len(Under(root, last.term)) )
            => HasTerm(last.result, t)

\* C2: Delete(t) returns true whenever the case-folded t is a terminal term
\* holding a candidate, whatever else is stored; it returns false and leaves
\* the index unchanged when t is not terminal; and a Delete(t) right after a
\* Delete(t) that returned true returns false.
C2_DeleteReturn ==
    [][ (ops' = ops + 1 /\ last'.op = "Delete") =>
          /\ IF IsStored(root, Normalize(last'.term))
             THEN last'.ret
             ELSE ~last'.ret /\ root' = root
          /\ (last.op = "Delete" /\ last.ret /\ last.term = last'.term)
             => ~last'.ret ]_vars

\* C3: a Search right after Delete(t) of a stored term t, for a non-empty
\* prefix p of t, returns no candidate for t, and still returns every other
\* term stored under p (limit permitting).
C3_DeletedIsGone ==
    [][ ( /\ last.op = "Delete" /\ last.stored
          /\ last'.op = "Search" /\ ops' = ops
          /\ last'.term \in Prefixes(Normalize(last.term)) )
        => /\ \A i \in DOMAIN last'.result :
                 Normalize(last'.result[i].Term) # Normalize(last.term)
           /\ \A u \in inserted :
                 ( /\ last'.term \in Prefixes(Normalize(u))
                   /\ last'.arg >= Len(Under(root, last'.term)) )
                 => HasTerm(last'.result, u) ]_vars

\* C4: GetSuggestionsCount returns the number of distinct case-folded terms
\* inserted and not deleted.
C4_CountIsDistinctTerms ==
    last.op = "GetSuggestionsCount" =>
        last.count = Cardinality({ Normalize(u) : u \in inserted })

\* C5: Insert(s); UpdateFrequency(s.term, f); Search(s.term, cap) returns a
\* candidate for s.term whose frequency is f and whose score is f (cap being at
\* least the number of candidates under s.term).
C5_UpdateRoundTrip ==
    [][ ( /\ last.op = "UpdateFrequency" /\ last.fresh
          /\ Normalize(last.term) # <<>>
          /\ last'.op = "Search" /\ ops' = ops
          /\ last'.term = last.term
          /\ last'.arg >= Len(Under(root, Normalize(last.term))) )
        => \E i \in DOMAIN last'.result :
              /\ last'.result[i].Term = last.term
              /\ last'.result[i].Frequency = last.arg
              /\ last'.result[i].Score = last.arg ]_vars

\* C6: Search(p, k) with k >= 1 returns at most k candidates, in
\* non-increasing order of score, and they are k highest-scoring candidates of
\* the subtree under p: min(k, n) of its n candidates, none of them scoring
\* less than a candidate left out.
C6_SearchTopK ==
    (last.op = "Search" /\ Normalize(last.term) # <<>>) =>
        LET r == last.result
            all == Under(root, Normalize(last.term))
        IN  /\ Len(r) <= last.arg
            /\ \A i \in 1..(Len(r) - 1) : r[i].Score >= r[i + 1].Score
            /\ Len(r) = IF Len(all) < last.arg THEN Len(all) ELSE last.arg
            /\ \A i \in DOMAIN r : Occurrences(r, r[i]) <= Occurrences(all, r[i])
            /\ \A j \in DOMAIN all :
                  Occurrences(r, all[j]) < Occurrences(all, all[j])
                  => \A i \in DOMAIN r : r[i].Score >= all[j].Score

\* a Search that had to choose: more candidates under the prefix than the
\* limit, with different scores, and a full page returned
C6_Witness ==
    /\ last.op = "Search"
    /\ Len(last.result) = last.arg
    /\ Len(Under(root, Normalize(last.term))) > last.arg
    /\ \E i, j \in DOMAIN Under(root, Normalize(last.term)) :
          Under(root, Normalize(last.term))[i].Score
              # Under(root, Normalize(last.term))[j].Score

\* C7: terms equal after case folding share one candidate slot: no candidate
\* list holds two entries with the same case-folded term, and right after an
\* Insert the terminal node holds exactly one candidate for the inserted
\* term, carrying that term as written.
C7_OneSlotPerFoldedTerm ==
    /\ \A p \in DOMAIN root :
          \A i, j \in DOMAIN root[p].Suggestions :
              ToLower(root[p].Suggestions[i].Term)
                  = ToLower(root[p].Suggestions[j].Term) => i = j
    /\ (last.op = "Insert" /\ Normalize(last.term) # <<>>) =>
          LET list == root[Normalize(last.term)].Suggestions
          IN  /\ Len(list) = 1
              /\ list[1].Term = last.term

\* C8: for a stored term s and a prefix p of s.term, Search(upper(p), k) and
\* Search(lower(p), k) on the same index return the same list in the same
\* order.
C8_CaseFoldLaw ==
    [][ ( /\ last.op = "Search" /\ last'.op = "Search" /\ ops' = ops
          /\ last.arg = last'.arg
          /\ \E u \in inserted : \E p \in Prefixes(u) :
                last.term = ToUpper(p) /\ last'.term = ToLower(p) )
        => last'.result = last.result ]_vars

\* C9: Delete of a stored term containing a multi-byte character returns true
\* and leaves the term unsearchable.
C9_DeleteMultiByte ==
    (last.op = "Delete" /\ last.stored /\ IsMultiByte(last.term)) =>
        /\ last.ret
        /\ ~IsStored(root, Normalize(last.term))

\* a tree no mutation is half-way through: every terminal node holds a
\* candidate and only terminal nodes do, every list is sorted by score, and
\* every path ends in a terminal node
Consistent(tree) ==
    \A p \in DOMAIN tree :
        /\ tree[p].IsEndOfWord <=> tree[p].Suggestions # <<>>
        /\ \A i \in 1..(Len(tree[p].Suggestions) - 1) :
              tree[p].Suggestions[i].Score >= tree[p].Suggestions[i + 1].Score
        /\ (p # <<>> /\ Children(tree, p) = {}) => tree[p].IsEndOfWord

Searching(p) == proc[p].pc \in {"walk", "collect", "return"}

\* C10: while a Search is between RLock and RUnlock no mutation is under
\* way: the tree is the one the last completed Insert, UpdateFrequency or
\* Delete left, with every path complete, every terminal node holding its
\* candidate and every list sorted; and what the Search returns is a result
\* of the whole Search on that tree.
C10_SearchSeesNoPartialMutation ==
    \A p \in Procs :
        Searching(p) =>
            /\ \A q \in Procs : proc[q].pc # "writing"
            /\ root = committed.root
            /\ Consistent(root)
            /\ proc[p].pc = "return" =>
                  proc[p].result \in
                      SearchOutcomes(committed.root, proc[p].term, proc[p].arg)

\* a Search that has walked into a non-empty tree and is collecting while
\* another goroutine's mutation waits for the mutex
C10_Witness ==
    \E p, q \in Procs :
        /\ proc[p].pc = "collect"
        /\ proc[p].acc # <<>>
        /\ proc[q].pc = "lock"

\* C11: while goroutines call Search, every Insert of a term that is not
\* empty and whose case-folded form is not stored yet raises what
\* GetSuggestionsCount returns by exactly one, so M such inserts by a writer
\* leave the count at its value before the run plus M.
C11_InsertsAddUp ==
    [][ \A p \in Procs :
          ( /\ proc[p].pc = "writing" /\ proc'[p].pc = "idle"
            /\ proc[p].op = "Insert"
            /\ Normalize(proc[p].term) # <<>>
            /\ ~IsStored(committed.root, Normalize(proc[p].term)) )
          => countSuggestions(root', DOMAIN root')
                = countSuggestions(committed.root, DOMAIN committed.root) + 1
      ]_vars

\* the writer has finished the writes of its second Insert of a new term
\* while a reader waits in RLock
C11_Witness ==
    \E p, q \in Procs :
        /\ proc[p].pc = "writing" /\ proc[p].op = "Insert"
        /\ proc[p].plan = <<>>
        /\ ~IsStored(committed.root, Normalize(proc[p].term))
        /\ countSuggestions(committed.root, DOMAIN committed.root) = 1
        /\ countSuggestions(root, DOMAIN root) = 2
        /\ proc[q].pc = "rlock"

\* C12: the in-process cache serialises its operations: at most one
\* goroutine at a time is inside Get, Set, Delete or the reaper's sweep.
C12_CacheSerialised ==
    Cardinality({ p \in CacheProcs : cproc[p].pc # "idle" }) <= 1

\* C13: a Get that returns a hit returns the payload of an entry that has not
\* expired; a Get that finds an expired entry removes the key and reports a
\* miss; Set stores the payload under the key with expiry now + ttl and
\* leaves the other entries alone; Delete of an absent key changes nothing.
C13_CacheContract ==
    [][ \A p \in Procs :
          /\ (cproc[p].pc = "check" /\ cproc'[p].pc = "idle") =>
                /\ cproc'[p].hit =>
                      /\ cproc[p].item.exists
                      /\ now <= cproc[p].item.expiry
                      /\ cproc'[p].result = cproc[p].item.suggestions
                /\ (cproc[p].item.exists /\ now > cproc[p].item.expiry) =>
                      /\ ~cproc'[p].hit
                      /\ cproc[p].key \notin DOMAIN data'
          /\ (cproc[p].pc = "Set" /\ cproc'[p].pc = "idle") =>
                /\ cproc[p].key \in DOMAIN data'
                /\ data'[cproc[p].key] =
                      [suggestions |-> cproc[p].payload, expiry |-> now + TTL]
                /\ \A k \in DOMAIN data' \ {cproc[p].key} :
                      k \in DOMAIN data /\ data'[k] = data[k]
          /\ ( /\ cproc[p].pc = "Delete" /\ cproc'[p].pc = "idle"
               /\ cproc[p].key \notin DOMAIN data ) => data' = data
      ]_vars

\* a Get has just found its entry expired and reported a miss
C13_Witness ==
    \E p \in Procs :
        /\ cproc[p].pc = "idle" /\ cproc[p].op = "Get"
        /\ cproc[p].item.exists
        /\ now > cproc[p].item.expiry
        /\ ~cproc[p].hit
        /\ cproc[p].key \notin DOMAIN data


\* the cache keys of the queries that a suggestion with this term answers:
\* the non-empty prefixes of the normalised term
KeysOfTerm(term) == { CacheKey(p) : p \in Prefixes(Normalize(term)) \ { <<>> } }

\* C14: a call of AddSuggestion, UpdateFrequency or DeleteSuggestion that
\* changes the index starts exactly one invalidation pass, and that pass
\* covers the key of every non-empty prefix of the normalised term.
C14_MutationInvalidates ==
    [][ (ops' = ops + 1 /\ mutated'.changed) =>
            /\ Cardinality(mutated'.started) = 1
            /\ mutated'.started \subseteq tasks'
            /\ \A task \in mutated'.started :
                   KeysOfTerm(mutated'.term) \subseteq InvalidationKeys(task.term)
      ]_vars


\* the candidates of list for the term still carry another frequency than f
Stale(list, term, f) ==
    \E i \in DOMAIN list :
        Normalize(list[i].Term) = Normalize(term) /\ list[i].Frequency # f

\* C15: once UpdateFrequency(t, f) has changed the index, more than TTL later
\* no cache entry that Get still serves holds t with its old frequency, and
\* no response produced more than 2 x TTL later carries it, whichever the
\* cache variant and however the population and invalidation goroutines were
\* scheduled.
C15_StalenessBounded ==
    (mutated.op = "UpdateFrequency" /\ mutated.changed) =>
        /\ now > mutated.at + TTL =>
               \A k \in DOMAIN data :
                   Live(data, k, now) =>
                       ~Stale(Elements(heap, data[k].suggestions),
                              mutated.term, mutated.frequency)
        /\ (resp.op = "GetSuggestions" /\ resp.at > mutated.at + 2 * TTL) =>
               ~Stale(resp.suggestions, mutated.term, mutated.frequency)


\* the terms of a list, in order
TermsOf(list) == [ i \in DOMAIN list |-> list[i].Term ]

\* the step is a GetSuggestions call that repeats the request of the response
\* before it, within the ttl of that response
Repeats ==
    /\ calls' = calls + 1
    /\ resp.op = "GetSuggestions"
    /\ resp'.query = resp.query
    /\ resp'.limit = resp.limit
    /\ resp'.personal = resp.personal
    /\ now <= resp.at + TTL

\* C16: with the index as loaded, when a query with an exact prefix match was
\* answered from the index, the same request made again right after it, within
\* the ttl, is answered from the cache with the same suggestions in the same
\* order.
C16_SecondFromCache ==
    [][ (Repeats /\ ops = 0 /\ resp.source = "trie" /\ resp.suggestions # <<>>) =>
            /\ resp'.source = "cache"
            /\ TermsOf(resp'.suggestions) = TermsOf(resp.suggestions)
      ]_vars


\* the list an entry of the cache holds
Payload(h, d, key) == Elements(h, d[key].suggestions)

\* the candidate carries the score the index has for its term, as it is or
\* with the penalty of the fuzzy search
BaseScored(tree, e) ==
    LET t == Normalize(e.Term)
    IN  /\ t \in DOMAIN tree
        /\ \E i \in DOMAIN tree[t].Suggestions :
               LET c == ToScored(tree[t].Suggestions[i])
               IN  /\ c.Term = e.Term
                   /\ e.Score \in { c.Score, RatMul(c.Score, 4, 5) }

\* C17: a GetSuggestions call leaves the index and the list of every cache
\* entry as they were, and the list that the population of the cache stores
\* carries the scores of the index, not the ranked ones.
C17_InputsNotMutated ==
    [][ /\ (calls' = calls + 1) =>
               /\ root' = root
               /\ \A k \in DOMAIN data \cap DOMAIN data' :
                      Payload(heap', data', k) = Payload(heap, data, k)
        /\ \A task \in tasks \ tasks' :
               (task.kind = "set" /\ ops = 0 /\ task.key \in DOMAIN data') =>
                   \A j \in DOMAIN Payload(heap', data', task.key) :
                       BaseScored(root, Payload(heap', data', task.key)[j])
      ]_vars


\* the step answers the query "app" with limit 5 while the index is as
\* loaded and the cache is empty
AppOnEmptyCache ==
    /\ calls' = calls + 1
    /\ ops = 0
    /\ DOMAIN data = {}
    /\ resp'.query = App
    /\ resp'.limit = 5

\* C18 as stated: on the test data and an empty cache, the query "app" with
\* limit 5 is answered [app, application, apple] with source "trie".
C18_ScenarioAsStated ==
    [][ AppOnEmptyCache =>
            /\ TermsOf(resp'.suggestions) = <<App, Application, Apple>>
            /\ resp'.source = "trie"
      ]_vars

\* C18: on the test data and an empty cache, the query "app" with limit 5 is
\* answered [app, apple, application] with source "trie", each with the score
\* base x 2 x 1/(1 + len/10) x 1.1: 26400/13, 4400/3 and 17600/21.
C18_ScenarioOrder ==
    [][ AppOnEmptyCache =>
            /\ TermsOf(resp'.suggestions) = <<App, Apple, Application>>
            /\ [ i \in 1..3 |-> resp'.suggestions[i].Score ] =
                   << Rat(26400, 13), Rat(4400, 3), Rat(17600, 21) >>
            /\ resp'.source = "trie"
      ]_vars

C18_Witness ==
    /\ calls = 1
    /\ resp.op = "GetSuggestions"
    /\ resp.query = App
    /\ Len(resp.suggestions) = 3


\* a <= b as Go compares strings
LexLeq(a, b) ==
    \E n \in 0..Len(a) :
        /\ n <= Len(b)
        /\ SubSeq(a, 1, n) = SubSeq(b, 1, n)
        /\ \/ n = Len(a)
           \/ n < Len(b) /\ a[n + 1] < b[n + 1]

\* candidates of equal score stand in the order of their terms, and of equal
\* term with the later update first
TieBroken(list) ==
    \A i \in 1..(Len(list) - 1) :
        list[i].Score = list[i + 1].Score =>
            /\ LexLeq(list[i].Term, list[i + 1].Term)
            /\ list[i].Term = list[i + 1].Term =>
                   list[i].UpdatedAt <= list[i + 1].UpdatedAt

\* what a GetSuggestions call that searches the index can answer to req
Answers(req) ==
    LET query == Normalize(req.Query)
        limit == IF req.Limit <= 0 THEN DefaultLimit ELSE req.Limit
    IN  { Truncate(rankSuggestions(personalizeResults(s.suggestions,
                                                      req.Personal), query),
                   limit) :
          s \in Searched(root, query, limit) }

\* C19: the suggestions of a response are a function of the index and the
\* request: candidates of equal boosted score are in the order of their terms,
\* then of their update time, latest first, and a call that searches the
\* index has one possible answer.
C19_OrderDetermined ==
    [][ (calls' = calls + 1 /\ resp'.source \in { "trie", "fuzzy" }) =>
            /\ TieBroken(resp'.suggestions)
            /\ Cardinality(Answers([Query |-> resp'.query, Limit |-> resp'.limit,
                                    Personal |-> resp'.personal])) = 1
      ]_vars


Min(a, b) == IF a < b THEN a ELSE b

\* C21: a response holds at most min(limit, 50) suggestions, and at most 10
\* when the request gives no limit, whichever of the cache, the index and
\* the fuzzy search produced them.
C21_LimitValidated ==
    [][ (calls' = calls + 1) =>
            Len(resp'.suggestions) <=
                Min(IF resp'.limit <= 0 THEN DefaultLimit ELSE resp'.limit,
                    LimitCap)
      ]_vars


\* the candidate is one of the index, ranked from 0.8 times its score there
FuzzyScored(tree, e, query) ==
    LET t == Normalize(e.Term)
    IN  /\ t \in DOMAIN tree
        /\ \E i \in DOMAIN tree[t].Suggestions :
               LET c == ToScored(tree[t].Suggestions[i])
               IN  /\ c.Term = e.Term
                   /\ e.Score = Boosted([c EXCEPT !.Score = RatMul(@, 4, 5)], query)

\* C22: on the test data and an empty cache, the query "aple" is answered with
\* a non-empty list of candidates of the index, each ranked from 0.8 times
\* its score, and source "fuzzy".
C22_TypoFound ==
    [][ (calls' = calls + 1 /\ ops = 0 /\ DOMAIN data = {}
            /\ resp'.query = Aple) =>
            /\ resp'.suggestions # <<>>
            /\ resp'.source = "fuzzy"
            /\ \A i \in DOMAIN resp'.suggestions :
                   FuzzyScored(root, resp'.suggestions[i], Normalize(resp'.query))
      ]_vars


\* C23: with EnableFuzzy = false the fuzzy fallback never runs: no response
\* has source "fuzzy", and a query with no exact prefix match in the index
\* that the cache does not answer gets no suggestion and source "trie".
C23_FuzzyDisabled ==
    [][ (calls' = calls + 1 /\ ~config.EnableFuzzy) =>
            /\ resp'.source # "fuzzy"
            /\ (/\ Normalize(resp'.query) # <<>>
                /\ resp'.source # "cache"
                /\ SearchOutcomes(root, resp'.query, 1) = { <<>> }) =>
                   (resp'.suggestions = <<>> /\ resp'.source = "trie")
      ]_vars


\* C24: with apple, app and application stored, DeleteSuggestion("apple")
\* reports success; once the goroutines it started are through, a
\* GetSuggestions("app") does not contain apple; DeleteSuggestion("apple")
\* when apple is not stored reports false.
C24_DeleteThenQuery ==
    [][ /\ (ops' = ops + 1 /\ mutated'.op = "DeleteSuggestion") =>
               (mutated'.ret <=> IsStored(root, Normalize(mutated'.term)))
        /\ (/\ calls' = calls + 1
            /\ resp'.query = App
            /\ mutated.op = "DeleteSuggestion"
            /\ mutated.term = Apple
            /\ tasks = {}) =>
               ~HasTerm(resp'.suggestions, Apple)
      ]_vars

\* C25: LogQuery never blocks: while the process is up a call can be made
\* and returns at once even when the queue is full; a call that finds the
\* queue at its capacity
\* leaves the queue alone, adds one to the error counter and returns an
\* error; any other call appends its event and returns nil; the queue is
\* never longer than its capacity; no call both enqueues and drops.
C25_LogQueryNeverBlocks ==
    /\ [](Len(logQueue) <= pipeConfig.QueueSize)
    /\ []((Alive /\ logged.calls < MaxEvents /\ ~HasRoom) =>
              ENABLED (\E query \in PipeQueries : LogQuery(query, MaxEvents)))
    /\ [][ logged'.calls = logged.calls + 1 =>
              LET event == SearchLog(logged'.query, now)
                  enqueued == logQueue' = Append(logQueue, event)
                  dropped == errorsTotal' = errorsTotal + 1
              IN  /\ enqueued \/ dropped
                  /\ ~(enqueued /\ dropped)
                  /\ dropped <=> Len(logQueue) = pipeConfig.QueueSize
                  /\ dropped => logQueue' = logQueue /\ logged'.ret = "error"
                  /\ enqueued => errorsTotal' = errorsTotal
                                  /\ logged'.ret = "nil"
          ]_vars

\* a call has found the queue full and dropped its event
C25_Witness ==
    /\ logged.ret = "error"
    /\ logged.before = pipeConfig.QueueSize
    /\ errorsTotal = 1
    /\ Len(logQueue) = pipeConfig.QueueSize

\* the three workers have been started
Started == \A w \in Workers : worker[w].pc # "none"

\* the three workers have returned
Quiesced == \A w \in Workers : worker[w].pc = "done"

\* C26: Stop is idempotent: after Start no call of Stop panics, the second
\* no more than the first, and a call returns only once the three workers
\* have exited.
C26_StopIdempotent ==
    /\ [](Started => \A c \in Stoppers : stopper[c] # "panicked")
    /\ [][ \A c \in Stoppers :
              (Started /\ stopper[c] = "waiting" /\ stopper'[c] = "returned")
                  => Quiesced
          ]_vars

\* C27: when a Stop called after Start returns, the pending-frequency map
\* is empty and, for every query, the counts handed to UpdateFrequency cover
\* the events LogQuery had accepted before Stop was called.
C27_StopDrains ==
    [][ \A c \in Stoppers :
          (atStop.started /\ stopper[c] = "waiting" /\ stopper'[c] = "returned")
              => /\ freqUpdates = EmptyMap
                 /\ \A q \in DOMAIN atStop.accepted \ { <<>> } :
                        Count(handed, q) >= atStop.accepted[q]
      ]_vars

\* the counts a flush has taken out of freqUpdates and not yet passed on
InFlight(q) ==
    IF worker["updateFrequencies"].pc = "apply"
    THEN Count(worker["updateFrequencies"].updates, q) ELSE 0

C29_FrequencyMonotone ==
    [][ \A p \in DOMAIN root \cap DOMAIN root' :
          \A i \in DOMAIN root[p].Suggestions :
             \A j \in DOMAIN root'[p].Suggestions :
                root[p].Suggestions[i].Term = root'[p].Suggestions[j].Term
                    => root'[p].Suggestions[j].Frequency
                           >= root[p].Suggestions[i].Frequency
      ]_vars

\* C30: when analyzeTrends runs for the first time after "zigzag" has been
\* logged TrendEvents times within the hour, all of them merged by the
\* batcher, it leaves "zigzag" in the index with a frequency of at least
\* 2.5 times TrendEvents.
C30_TrendBoost ==
    [][ LET d == "detectTrending" IN
        (/\ worker'[d].seen # worker[d].seen
         /\ Count(worker'[d].seen, Zigzag) = TrendEvents
         /\ Count(merged, Zigzag) = TrendEvents)
            => /\ IsStored(root', Zigzag)
               /\ \E i \in DOMAIN root'[Zigzag].Suggestions :
                      /\ root'[Zigzag].Suggestions[i].Term = Zigzag
                      /\ 2 * root'[Zigzag].Suggestions[i].Frequency
                             >= 5 * TrendEvents
      ]_vars

\* the candidate filed for a term, if the index holds one
Stored(tree, term) ==
    { tree[Normalize(term)].Suggestions[i] :
      i \in { j \in DOMAIN tree[Normalize(term)].Suggestions :
                 ToLower(tree[Normalize(term)].Suggestions[j].Term)
                     = Normalize(term) } }

\* C31: the update-frequency handler answers 404 and leaves the index as it
\* is when the term is not in the index; it answers 200 only when the term
\* is in the index, and then the term's frequency is the one given.
C31_UpdateUnknownIsNotFound ==
    [][ (reply'.n = reply.n + 1 /\ reply'.handler = "UpdateFrequency"
         /\ reply'.status # 400) =>
            LET term == reply'.terms[1] IN
            IF IsStored(root, Normalize(term))
            THEN reply'.status = 200
                 /\ \A s \in Stored(root', term) :
                        s.Frequency = mutated'.frequency
            ELSE reply'.status = 404 /\ root' = root
      ]_vars

\* a term the admin endpoints are to reject: empty, longer than 200
\* characters, or holding '<', '>', '&' or "script" in some casing
MustReject(term) ==
    \/ term = <<>>
    \/ Len(term) > 200
    \/ \E i \in DOMAIN term : term[i] \in { 60, 62, 38 }
    \/ Contains(ToLower(term), <<115, 99, 114, 105, 112, 116>>)

\* C32: the add-one and the add-batch handler reject every term that is
\* empty, longer than 200 characters, or holds '<', '>', '&' or "script" /
\* "javascript" in any casing; a rejected request inserts nothing, and a
\* batch with one such term inserts none of its terms.
C32_AdminRejectsDangerous ==
    [][ (reply'.n = reply.n + 1
         /\ reply'.handler \in { "AddSuggestion", "BatchAddSuggestions" }
         /\ \E i \in DOMAIN reply'.terms : MustReject(reply'.terms[i])) =>
            (reply'.status = 400 /\ root' = root /\ size' = size)
      ]_vars

\* C33: GetSuggestions honours the caller's deadline: called with a context
\* that has expired, it gives up and returns a timeout error, no suggestions.
C33_DeadlineHonoured ==
    (resp.op = "GetSuggestions" /\ resp.ctx = "expired") =>
        (resp.err = "timeout" /\ resp.suggestions = <<>>)

\* a node is terminal exactly when it holds a candidate, and a node other
\* than the root that has no child is terminal
NodesWellFormed(tree) ==
    /\ \A p \in DOMAIN tree : tree[p].IsEndOfWord <=> tree[p].Suggestions # <<>>
    /\ \A p \in DOMAIN tree \ { <<>> } :
           Children(tree, p) = {} => tree[p].IsEndOfWord

\* the nodes on the path of t that are left without a child and without a
\* candidate once t's own candidates are gone
Prunable(tree, t) ==
    { p \in Prefixes(t) \cap DOMAIN tree :
        \A q \in DOMAIN tree :
           IsPrefix(p, q) => (q \in Prefixes(t)
                              /\ (q # t => ~tree[q].IsEndOfWord)) }

\* C34: in every reachable state of the index a node is terminal iff its
\* candidate list is not empty, and every childless node but the root is
\* terminal; a Delete that empties the list of the term's node clears the
\* node's terminal flag and removes exactly the nodes on the term's path
\* that are then childless and not terminal, leaving the others as they were.
C34_NodesWellFormed ==
    [][ /\ NodesWellFormed(root')
        /\ (ops' = ops + 1 /\ last'.op = "Delete") =>
              LET t == Normalize(last'.term)
                  emptied == /\ IsStored(root, t)
                             /\ (t \in DOMAIN root' => root'[t].Suggestions = <<>>)
              IN  IF emptied
                  THEN /\ DOMAIN root' = DOMAIN root \ Prunable(root, t)
                       /\ \A p \in DOMAIN root' :
                              IF p = t THEN ~root'[p].IsEndOfWord
                              ELSE root'[p] = root[p]
                  ELSE root' = root
      ]_vars

\* C40: after any sequence of Insert and Delete the index's size field
\* equals what GetSuggestionsCount() returns.
C40_SizeIsCount ==
    size = countSuggestions(root, DOMAIN root)

\* C36: both cache variants treat a hit alike: a Get that finds the entry
\* moves the entry's expiry to now + ttl, in the in-process cache as in the
\* remote one.
C36_HitRefreshesExpiry ==
    [][ (calls' = calls + 1 /\ resp'.source = "cache") =>
            LET key == CacheKey(Normalize(resp'.query))
            IN  /\ key \in DOMAIN data'
                /\ data'[key].expiry = now + TTL
      ]_vars

\* the terms of a list, as a set
TermSet(list) == { list[i].Term : i \in DOMAIN list }

\* the sets of terms the index gives the request in the present state
FromIndex(req) ==
    LET query == Normalize(req.query)
        limit == IF req.limit <= 0 THEN DefaultLimit ELSE req.limit
    IN  { TermSet(Truncate(rankSuggestions(
                  personalizeResults(s.suggestions, req.personal), query),
                  limit)) :
          s \in Searched(root, query, limit) }

\* C37: with the index unchanged, a GetSuggestions call answered from the
\* cache returns the terms that the same call answered from the index
\* returns; an entry that a request with a smaller limit has put there
\* (2 x limit candidates) does not leave a request with a larger limit with
\* fewer suggestions.
C37_CacheAgreesWithIndex ==
    [][ (calls' = calls + 1 /\ resp'.source = "cache") =>
            TermSet(resp'.suggestions) \in FromIndex(resp')
      ]_vars

\* C38: a GetSuggestions response never holds the same term twice, whether
\* it comes from the index, the cache or the fuzzy search that concatenates
\* the results of several searches.
C38_NoDuplicateTerms ==
    resp.op = "GetSuggestions" =>
        \A i, j \in DOMAIN resp.suggestions :
            resp.suggestions[i].Term = resp.suggestions[j].Term => i = j

\* the list still shows the term as it was before the mutation on record: at
\* all after a delete, with another frequency after an update
Outdated(list) ==
    IF mutated.op = "UpdateFrequency"
    THEN Stale(list, mutated.term, mutated.frequency)
    ELSE \E i \in DOMAIN list : Normalize(list[i].Term) = Normalize(mutated.term)

\* C39: once a delete or a frequency update of a term made through the
\* service has changed the index and its invalidation pass has run, with no
\* read in flight, no cache entry holds the term as it was before, whatever
\* the query the entry was cached under, the queries of the fuzzy fallback
\* that are no prefix of the term included.
C39_InvalidationComplete ==
    [][ ( /\ mutated.op \in { "UpdateFrequency", "DeleteSuggestion" }
          /\ mutated.changed
          /\ mutated.started # {}
          /\ tasks = mutated.started
          /\ tasks' = {}
          /\ calls' = calls ) =>
            \A k \in DOMAIN data' :
                Live(data', k, now) => ~Outdated(Elements(heap', data'[k].suggestions))
      ]_vars

\* the events of a sequence of logs whose query normalises to q
EventsOf(logs, q) ==
    Cardinality({ i \in DOMAIN logs : normalizeQuery(logs[i].Query) = q })

\* the logs of all processBatch calls so far, one after the other
RECURSIVE Flatten(_)
Flatten(list) == IF list = <<>> THEN <<>> ELSE Head(list) \o Flatten(Tail(list))

\* the events processLogs has received and not yet passed on
Buffered ==
    IF worker["processLogs"].pc = "select" THEN worker["processLogs"].logs
    ELSE <<>>

\* the events LogQuery has enqueued so far
RECURSIVE Total(_)
Total(m) ==
    IF DOMAIN m = {} THEN 0
    ELSE LET k == CHOOSE x \in DOMAIN m : TRUE
         IN  m[k] + Total(MapDelete(m, k))

\* C35: while the pipeline runs, the buffer of processLogs never holds more
\* than batch_size events; every event LogQuery accepted is waiting in the
\* queue, waiting in the buffer, or part of one processBatch call, never of
\* two; and, the goroutines being scheduled fairly, every accepted event
\* ends up in a processBatch call, when the buffer reaches batch_size or at
\* the next tick of flush_interval.
C35_BatchedExactlyOnce ==
    /\ [](Len(worker["processLogs"].logs) <= pipeConfig.BatchSize)
    /\ [](\A q \in DOMAIN accepted :
             EventsOf(Flatten(batches), q) + EventsOf(Buffered, q)
                 + EventsOf(logQueue, q) = accepted[q])
    /\ \A n \in 1..BatchEvents :
           (Started /\ Total(accepted) >= n) ~> (Len(Flatten(batches)) >= n)

\* three events were accepted and all were passed on, two of them in a
\* batch of batch_size and one at a tick
C35_Witness ==
    /\ Total(accepted) = BatchEvents
    /\ Len(Flatten(batches)) = BatchEvents
    /\ \E i, j \in DOMAIN batches :
           Len(batches[i]) = pipeConfig.BatchSize /\ Len(batches[j]) = 1

====
